---------------------------- MODULE Spec2Model ----------------------------
(***************************************************************************)
(* Verification model of the protokoll packages:                           *)
(*   - the JARM direct_post.jwt response validation                        *)
(*     (packages/jarm/src/jarm-auth-response/jarm-auth-response.ts)        *)
(*   - the mdoc Verifier (mdoc-client verifier)                            *)
(*   - the DeviceResponse builder and its sign()                           *)
(*   - the key layer: PEM import, generateSecret, generateKeyPair          *)
(* Each subsystem has its own specification (SpecJarm, SpecVerifier,       *)
(* SpecBuilder, SpecKeys); the variables of the others stay idle.          *)
(***************************************************************************)
EXTENDS Integers, Sequences, FiniteSets, TLC

VARIABLES
  \* ---- JARM validation (jarmAuthResponseDirectPostJwtValidate) ----
  jpc,                  \* position inside the validation call
  response,             \* input.response
  created,              \* how the response was produced (jarmAuthResponseCreate input) or "received"
  responseIsEncrypted,  \* const responseIsEncrypted
  decryptedResponse,    \* const decryptedResponse
  responseIsSigned,     \* const responseIsSigned
  authResponseParams,   \* responseParams / authResponseParams
  authRequestParams,    \* authRequestParams
  jlog,                 \* capability invocations and schema parses, in program order
  jresult,              \* what the call produced: pending, a thrown error, or the returned value
  \* ---- mdoc Verifier (Verifier.verify) ----
  vpc,                  \* position inside Verifier.verify
  voptions,             \* options of the call and the verifier's issuersRootCertificates
  dr,                   \* the parsed device response: the number of its documents
  docIdx,               \* index of the document the for-loop is at
  vin,                  \* what the last step read of the document and got from the host
  pendingNs,            \* verifyData: namespaces whose async callback still awaits its digests
  assessments,          \* assessments delivered to onCheck by the last step, in order
  vcalls,               \* host capabilities invoked by the last step, in order
  failedSeen,           \* some assessment delivered so far in this call was FAILED
  trail,                \* <<document, category>> of every assessment delivered so far, repeats merged
  msoDigests,           \* namespaces with digests in the MSO read by the running verifyData
  nsTrail,              \* namespaces named by the assessments of the running verifyData, repeats merged
  vresult,              \* what verify produced: pending, the decoded response, or a thrown error
  \* ---- DeviceResponse builder ----
  bpc,                  \* idle, building (builder calls accepted), signed
  mdoc,                 \* this.mdoc: the source documents
  pd,                   \* this.pd: <<>> while undefined, else <<the presentation definition>>
  handover,             \* this.handover is set
  useMac,               \* this.useMac
  devicePrivateKey,     \* this.devicePrivateKey is set
  alg,                  \* this.alg
  macAlg,               \* this.macAlg
  ephemeralPublicKey,   \* this.ephemeralPublicKey is set
  blast,                \* the last builder call: its name, argument and error
  lastAuth,             \* the most recent authenticateWith* call: its name and alg
  bresult,              \* what sign produced: pending, a thrown error, or the MDoc
  \* ---- key layer (import, generateSecret, generateKeyPair) ----
  kin,                  \* the call made: operation and input
  kcalls,               \* crypto.subtle / crypto calls the operation made, in order
  kresult,              \* what the operation produced
  kalgorithm,           \* the algorithm parameter handed to crypto.subtle
  \* ---- ASN.1 walk (getElement, parseElement, spkiFromX509) ----
  apc,                  \* position inside getElement / parseElement
  aseq,                 \* seq: the bytes getElement walks
  anext,                \* next of getElement
  aposition,            \* position of parseElement
  alength,              \* length of parseElement
  numberOfDigits,       \* numberOfDigits of parseElement
  ai,                   \* i of the length loop
  aelements,            \* result of getElement
  aresult               \* what fromX509 produced: pending, a thrown error, or the imported key data

jarmVars == <<jpc, response, created, responseIsEncrypted, decryptedResponse,
              responseIsSigned, authResponseParams, authRequestParams, jlog, jresult>>

verifierVars == <<vpc, voptions, dr, docIdx, vin, pendingNs, assessments, vcalls,
                  failedSeen, trail, msoDigests, nsTrail, vresult>>

builderVars == <<bpc, mdoc, pd, handover, useMac, devicePrivateKey, alg, macAlg,
                 ephemeralPublicKey, blast, lastAuth, bresult>>

keyVars == <<kin, kcalls, kresult, kalgorithm>>

asn1Vars == <<apc, aseq, anext, aposition, alength, numberOfDigits, ai, aelements, aresult>>

vars == <<jarmVars, verifierVars, builderVars, keyVars, asn1Vars>>

-----------------------------------------------------------------------------
(* Bounds *)
NumStates == 2     \* distinct values of the OAuth `state` parameter
NumKids == 2       \* distinct key ids a protected header may name
MaxDocs == 2       \* documents in a device response
MaxItems == 1      \* disclosed items per namespace
MaxTime == 2       \* dates are 0..MaxTime

StateVals == 1..NumStates
Kids == 1..NumKids

-----------------------------------------------------------------------------
(* JSON objects (response parameters) *)

\* The keys the schemas look at, in serialisation order.
ParamKeys == <<"state", "iss", "aud", "exp", "vp_token", "error">>
KeySet == {ParamKeys[i] : i \in 1..Len(ParamKeys)}

ValuesOf(k) == IF k = "state" THEN StateVals ELSE {1}

\* Every parameter object: a function from a subset of the keys to values.
AllParams == UNION {[D -> 1..NumStates] : D \in SUBSET KeySet}
Params == {p \in AllParams : \A k \in DOMAIN p : p[k] \in ValuesOf(k)}

Has(p, k) == k \in DOMAIN p

RECURSIVE StringifyFrom(_, _)
StringifyFrom(p, i) ==
  IF i > Len(ParamKeys) THEN <<>>
  ELSE (IF Has(p, ParamKeys[i]) THEN << <<ParamKeys[i], p[ParamKeys[i]]>> >> ELSE <<>>)
       \o StringifyFrom(p, i + 1)

\* JSON.stringify: the members of the object, absent members left out.
JsonStringify(p) == StringifyFrom(p, 1)

\* A text that is not JSON at all.
JunkText == << <<"junk", 1>>, <<"junk", 1>> >>

IsJson(text) == text # JunkText

\* JSON.parse of a JSON text.
JsonParse(text) ==
  [k \in {text[i][1] : i \in 1..Len(text)} |->
     text[CHOOSE i \in 1..Len(text) : text[i][1] = k][2]]

Texts == {JsonStringify(p) : p \in Params} \cup {JunkText}

-----------------------------------------------------------------------------
(* Compact serialisations *)

JweSegments == 5
JwsSegments == 3
PlainSegments == {1, 4}

\* A protected header: decodable or not, naming at most one kid.
Headers == [ok : {TRUE}, kid : {{}} \cup {{k} : k \in Kids}] \cup {[ok |-> FALSE, kid |-> {}]}

\* A compact JWS: header, the key that produced the signature, payload text.
JwsSet == [segs : {JwsSegments}, hdr : Headers, key : Kids, body : Texts]

\* Anything that is neither five nor three segments: a bare text.
PlainSet == [segs : PlainSegments, hdr : {[ok |-> FALSE, kid |-> {}]}, key : {1}, body : Texts]

\* A compact JWE: header, the key it was encrypted to, the plaintext inside.
JweSet == [segs : {JweSegments}, hdr : Headers, key : Kids, body : JwsSet \cup PlainSet]

Responses == JweSet \cup JwsSet \cup PlainSet

isJwe(r) == r.segs = JweSegments
isJws(r) == r.segs = JwsSegments

\* decodeProtectedHeader / decodeJwt of the jose package.
HeaderDecodes(r) == r.hdr.ok
HeaderHasKid(r) == r.hdr.kid # {}
HeaderKid(r) == CHOOSE k \in r.hdr.kid : TRUE
JwtDecodes(r) == IsJson(r.body)
decodeJwt(r) == JsonParse(r.body)

-----------------------------------------------------------------------------
(* Host capabilities of the validation context *)

\* The kids the context's jwe.decryptCompact / jws.verifyJwt can resolve to a key.
ResolvableKids == {1}

\* ctx.jose.jwe.decryptCompact({jwe, jwk: {kid, kty: 'auto'}}) succeeds.
DecryptSucceeds(jwe, kid) == kid \in ResolvableKids /\ jwe.key = kid

\* ctx.jose.jws.verifyJwt({jws, jwk: {kid, kty: 'auto'}}) succeeds.
VerifySucceeds(jws, kid) == kid \in ResolvableKids /\ jws.key = kid

\* What ctx.openid4vp.authRequest.getParams may return: request parameters
\* with or without a state.
AuthRequests == {p \in Params : DOMAIN p \subseteq {"state"}}

-----------------------------------------------------------------------------
(* Schemas *)

\* v.is(vJarmAuthResponseErrorParams, responseParams)
IsErrorParams(p) == Has(p, "error")

\* v.parse(vJarmDirectPostJwtParams, p) succeeds (iss, aud, exp optional)
ParsesLoose(p) == Has(p, "vp_token")

\* v.parse(v.required(vJarmDirectPostJwtParams, ['iss', 'aud', 'exp']), p) succeeds
ParsesStrict(p) == ParsesLoose(p) /\ Has(p, "iss") /\ Has(p, "aud") /\ Has(p, "exp")

\* authRequest.state !== authResponse.state (an absent state is undefined)
StateDiffers(req, res) ==
  \/ Has(req, "state") # Has(res, "state")
  \/ (Has(req, "state") /\ Has(res, "state") /\ req["state"] # res["state"])

\* jarmAuthResponseDirectPostValidateParams throws
ValidateParamsThrows(req, res) == StateDiffers(req, res)

-----------------------------------------------------------------------------
(* jarmAuthResponseCreate *)

CreateTypes == {"signed", "encrypted", "signed encrypted"}

SignJwt(p, kid) ==
  [segs |-> JwsSegments, hdr |-> [ok |-> TRUE, kid |-> {kid}], key |-> kid,
   body |-> JsonStringify(p)]

PlainJson(p) ==
  [segs |-> 1, hdr |-> [ok |-> FALSE, kid |-> {}], key |-> 1, body |-> JsonStringify(p)]

EncryptCompact(plaintext, kid) ==
  [segs |-> JweSegments, hdr |-> [ok |-> TRUE, kid |-> {kid}], key |-> kid,
   body |-> plaintext]

jarmAuthResponseCreate(type, p, signKid, encKid) ==
  IF type = "encrypted" THEN EncryptCompact(PlainJson(p), encKid)
  ELSE IF type = "signed" THEN SignJwt(p, signKid)
  ELSE EncryptCompact(SignJwt(p, signKid), encKid)

-----------------------------------------------------------------------------
(* jarmAuthResponseDirectPostJwtValidate *)

EmptyParams == [k \in {} |-> 1]
NoResponse == PlainJson(EmptyParams)

\* One entry of the call log: the operation, the compact string and the
\* parameters it was given, the kid it was asked to resolve, and whether it
\* completed without throwing.
LogEntry(op, arg, p, kid, ok) == [op |-> op, arg |-> arg, params |-> p, kid |-> kid, ok |-> ok]

Pending == [kind |-> "pending", error |-> "", type |-> "",
            authRequestParams |-> EmptyParams, authResponseParams |-> EmptyParams]

Thrown(e) == [kind |-> "error", error |-> e, type |-> "",
              authRequestParams |-> EmptyParams, authResponseParams |-> EmptyParams]

Returned(req, res, t) == [kind |-> "ok", error |-> "", type |-> t,
                          authRequestParams |-> req, authResponseParams |-> res]

Throw(e) == jresult' = Thrown(e) /\ jpc' = "done"

\* The validator is called with a response received from the network.
Receive ==
  /\ jpc = "idle"
  /\ UNCHANGED <<verifierVars, builderVars, keyVars, asn1Vars>>
  /\ \E r \in Responses :
       /\ response' = r
       /\ created' = [type |-> "received", params |-> EmptyParams]
       /\ jpc' = "start"
       /\ UNCHANGED <<responseIsEncrypted, decryptedResponse, responseIsSigned,
                      authResponseParams, authRequestParams, jlog, jresult>>

\* The validator is called with a response just built by jarmAuthResponseCreate.
CreateAndSend ==
  /\ jpc = "idle"
  /\ UNCHANGED <<verifierVars, builderVars, keyVars, asn1Vars>>
  /\ \E type \in CreateTypes, p \in Params, signKid \in Kids, encKid \in Kids :
       /\ response' = jarmAuthResponseCreate(type, p, signKid, encKid)
       /\ created' = [type |-> type, params |-> p]
       /\ jpc' = "start"
       /\ UNCHANGED <<responseIsEncrypted, decryptedResponse, responseIsSigned,
                      authResponseParams, authRequestParams, jlog, jresult>>

\* Mutant: decryptCompact is called although the protected header has no kid.
decryptJarmAuthResponse_NoKidCheck ==
  /\ jpc = "start"
  /\ UNCHANGED <<verifierVars, builderVars, keyVars, asn1Vars>>
  /\ responseIsEncrypted' = isJwe(response)
  /\ IF ~isJwe(response)
     THEN /\ decryptedResponse' = response
          /\ jpc' = "classify"
          /\ UNCHANGED <<jlog, jresult>>
     ELSE IF ~HeaderDecodes(response)
     THEN /\ Throw("InvalidProtectedHeader")
          /\ UNCHANGED <<decryptedResponse, jlog>>
     ELSE /\ jlog' = Append(jlog, LogEntry("decryptCompact", response, EmptyParams,
                                            response.hdr.kid,
                                            HeaderHasKid(response)
                                              /\ DecryptSucceeds(response, HeaderKid(response))))
          /\ IF HeaderHasKid(response) /\ DecryptSucceeds(response, HeaderKid(response))
             THEN /\ decryptedResponse' = response.body
                  /\ jpc' = "classify"
                  /\ UNCHANGED jresult
             ELSE /\ Throw("DecryptFailed")
                  /\ UNCHANGED decryptedResponse
  /\ UNCHANGED <<response, created, responseIsSigned, authResponseParams, authRequestParams>>

\* const responseIsEncrypted = isJwe(response);
\* const decryptedResponse = responseIsEncrypted ? await decryptJarmAuthResponse(..) : response
decryptJarmAuthResponse ==
  /\ jpc = "start"
  /\ UNCHANGED <<verifierVars, builderVars, keyVars, asn1Vars>>
  /\ responseIsEncrypted' = isJwe(response)
  /\ IF ~isJwe(response)
     THEN /\ decryptedResponse' = response
          /\ jpc' = "classify"
          /\ UNCHANGED <<jlog, jresult>>
     ELSE IF ~HeaderDecodes(response)
     THEN /\ Throw("InvalidProtectedHeader")
          /\ UNCHANGED <<decryptedResponse, jlog>>
     ELSE IF ~HeaderHasKid(response)
     THEN /\ Throw("JweMissingKid")
          /\ UNCHANGED <<decryptedResponse, jlog>>
     ELSE /\ jlog' = Append(jlog, LogEntry("decryptCompact", response, EmptyParams,
                                            {HeaderKid(response)},
                                            DecryptSucceeds(response, HeaderKid(response))))
          /\ IF DecryptSucceeds(response, HeaderKid(response))
             THEN /\ decryptedResponse' = response.body
                  /\ jpc' = "classify"
                  /\ UNCHANGED jresult
             ELSE /\ Throw("DecryptFailed")
                  /\ UNCHANGED decryptedResponse
  /\ UNCHANGED <<response, created, responseIsSigned, authResponseParams, authRequestParams>>

\* Mutant: the not-signed-or-encrypted rejection is missing.
Classify_AcceptPlain ==
  /\ jpc = "classify"
  /\ UNCHANGED <<verifierVars, builderVars, keyVars, asn1Vars>>
  /\ responseIsSigned' = isJws(decryptedResponse)
  /\ jpc' = IF isJws(decryptedResponse) THEN "signed" ELSE "json"
  /\ UNCHANGED jresult
  /\ UNCHANGED <<response, created, responseIsEncrypted, decryptedResponse,
                 authResponseParams, authRequestParams, jlog>>

\* const responseIsSigned = isJws(decryptedResponse);
\* if (!responseIsEncrypted && !responseIsSigned) throw ...
Classify ==
  /\ jpc = "classify"
  /\ UNCHANGED <<verifierVars, builderVars, keyVars, asn1Vars>>
  /\ responseIsSigned' = isJws(decryptedResponse)
  /\ IF ~responseIsEncrypted /\ ~isJws(decryptedResponse)
     THEN Throw("NotSignedOrEncrypted")
     ELSE /\ jpc' = IF isJws(decryptedResponse) THEN "signed" ELSE "json"
          /\ UNCHANGED jresult
  /\ UNCHANGED <<response, created, responseIsEncrypted, decryptedResponse,
                 authResponseParams, authRequestParams, jlog>>

\* parseJarmAuthResponseParams(schema, responseParams): the error-response
\* test, then v.parse. The result is "error", "invalid" or "ok"; the v.parse
\* that ran is logged.
ParseOutcome(strict, p) ==
  IF IsErrorParams(p) THEN "error"
  ELSE IF (IF strict THEN ParsesStrict(p) ELSE ParsesLoose(p)) THEN "ok"
  ELSE "invalid"

\* Mutant: the schema parse runs before the error-response test.
parseJarmAuthResponseParams_SchemaFirst(strict, p, next) ==
  /\ jlog' = Append(jlog, LogEntry("parse", decryptedResponse, p, {},
                                   IF strict THEN ParsesStrict(p) ELSE ParsesLoose(p)))
  /\ IF ~(IF strict THEN ParsesStrict(p) ELSE ParsesLoose(p))
     THEN /\ Throw("SchemaInvalid")
          /\ UNCHANGED authResponseParams
     ELSE IF IsErrorParams(p)
     THEN /\ Throw("ReceivedErrorResponse")
          /\ UNCHANGED authResponseParams
     ELSE /\ authResponseParams' = p
          /\ jpc' = next
          /\ UNCHANGED jresult

parseJarmAuthResponseParams(strict, p, next) ==
  /\ IF ParseOutcome(strict, p) = "error"
     THEN /\ Throw("ReceivedErrorResponse")
          /\ UNCHANGED <<jlog, authResponseParams>>
     ELSE /\ jlog' = Append(jlog, LogEntry("parse", decryptedResponse, p, {},
                                            ParseOutcome(strict, p) = "ok"))
          /\ IF ParseOutcome(strict, p) = "ok"
             THEN /\ authResponseParams' = p
                  /\ jpc' = next
                  /\ UNCHANGED jresult
             ELSE /\ Throw("SchemaInvalid")
                  /\ UNCHANGED authResponseParams

\* Mutant: the JWS payload is parsed with the plain schema (v.required forgotten).
ParseSigned_Loose ==
  /\ jpc = "signed"
  /\ UNCHANGED <<verifierVars, builderVars, keyVars, asn1Vars>>
  /\ IF ~HeaderDecodes(decryptedResponse)
     THEN /\ Throw("InvalidProtectedHeader")
          /\ UNCHANGED <<jlog, authResponseParams>>
     ELSE IF ~JwtDecodes(decryptedResponse)
     THEN /\ Throw("InvalidJwt")
          /\ UNCHANGED <<jlog, authResponseParams>>
     ELSE parseJarmAuthResponseParams(FALSE, decodeJwt(decryptedResponse), "getParamsSigned")
  /\ UNCHANGED <<response, created, responseIsEncrypted, decryptedResponse,
                 responseIsSigned, authRequestParams>>

\* if (responseIsSigned) { decodeProtectedHeader; decodeJwt; parse with the strict schema
ParseSigned ==
  /\ jpc = "signed"
  /\ UNCHANGED <<verifierVars, builderVars, keyVars, asn1Vars>>
  /\ IF ~HeaderDecodes(decryptedResponse)
     THEN /\ Throw("InvalidProtectedHeader")
          /\ UNCHANGED <<jlog, authResponseParams>>
     ELSE IF ~JwtDecodes(decryptedResponse)
     THEN /\ Throw("InvalidJwt")
          /\ UNCHANGED <<jlog, authResponseParams>>
     ELSE parseJarmAuthResponseParams(TRUE, decodeJwt(decryptedResponse), "getParamsSigned")
  /\ UNCHANGED <<response, created, responseIsEncrypted, decryptedResponse,
                 responseIsSigned, authRequestParams>>

\* } else { JSON.parse(decryptedResponse); parse with the plain schema
ParseJson ==
  /\ jpc = "json"
  /\ UNCHANGED <<verifierVars, builderVars, keyVars, asn1Vars>>
  /\ IF ~IsJson(decryptedResponse.body)
     THEN /\ Throw("InvalidJson")
          /\ UNCHANGED <<jlog, authResponseParams>>
     ELSE parseJarmAuthResponseParams(FALSE, JsonParse(decryptedResponse.body), "getParamsJson")
  /\ UNCHANGED <<response, created, responseIsEncrypted, decryptedResponse,
                 responseIsSigned, authRequestParams>>

\* ({ authRequestParams } = await ctx.openid4vp.authRequest.getParams(responseParams))
getParams(next) ==
  /\ \/ \E req \in AuthRequests :
          /\ authRequestParams' = req
          /\ jlog' = Append(jlog, LogEntry("getParams", decryptedResponse,
                                            authResponseParams, {}, TRUE))
          /\ jpc' = next
          /\ UNCHANGED jresult
     \/ /\ jlog' = Append(jlog, LogEntry("getParams", decryptedResponse,
                                          authResponseParams, {}, FALSE))
        /\ Throw("GetParamsFailed")
        /\ UNCHANGED authRequestParams
  /\ UNCHANGED <<response, created, responseIsEncrypted, decryptedResponse,
                 responseIsSigned, authResponseParams>>

\* Mutant: after getParams the signed branch goes straight to the state check.
GetParamsSigned_SkipVerify == jpc = "getParamsSigned" /\ getParams("validate") /\ UNCHANGED <<verifierVars, builderVars, keyVars, asn1Vars>>

GetParamsSigned == jpc = "getParamsSigned" /\ getParams("verify") /\ UNCHANGED <<verifierVars, builderVars, keyVars, asn1Vars>>

GetParamsJson == jpc = "getParamsJson" /\ getParams("validate") /\ UNCHANGED <<verifierVars, builderVars, keyVars, asn1Vars>>

\* Mutant: a failing verifyJwt is swallowed.
VerifySigned_IgnoreFailure ==
  /\ jpc = "verify"
  /\ UNCHANGED <<verifierVars, builderVars, keyVars, asn1Vars>>
  /\ IF ~HeaderHasKid(decryptedResponse)
     THEN /\ Throw("JwsMissingKid")
          /\ UNCHANGED jlog
     ELSE /\ jlog' = Append(jlog, LogEntry("verifyJwt", decryptedResponse, authResponseParams,
                                            {HeaderKid(decryptedResponse)},
                                            VerifySucceeds(decryptedResponse,
                                                           HeaderKid(decryptedResponse))))
          /\ jpc' = "validate" /\ UNCHANGED jresult
  /\ UNCHANGED <<response, created, responseIsEncrypted, decryptedResponse,
                 responseIsSigned, authResponseParams, authRequestParams>>

\* if (!jwsProtectedHeader.kid) throw ...; await ctx.jose.jws.verifyJwt({jws, jwk: {kid}})
VerifySigned ==
  /\ jpc = "verify"
  /\ UNCHANGED <<verifierVars, builderVars, keyVars, asn1Vars>>
  /\ IF ~HeaderHasKid(decryptedResponse)
     THEN /\ Throw("JwsMissingKid")
          /\ UNCHANGED jlog
     ELSE /\ jlog' = Append(jlog, LogEntry("verifyJwt", decryptedResponse, authResponseParams,
                                            {HeaderKid(decryptedResponse)},
                                            VerifySucceeds(decryptedResponse,
                                                           HeaderKid(decryptedResponse))))
          /\ IF VerifySucceeds(decryptedResponse, HeaderKid(decryptedResponse))
             THEN jpc' = "validate" /\ UNCHANGED jresult
             ELSE Throw("VerifyFailed")
  /\ UNCHANGED <<response, created, responseIsEncrypted, decryptedResponse,
                 responseIsSigned, authResponseParams, authRequestParams>>

\* Mutant: the encrypted test comes first, so signed-and-encrypted is never reported.
ResponseType_EncryptedFirst(signed, encrypted) ==
  IF encrypted THEN "encrypted"
  ELSE IF signed /\ encrypted THEN "signed encrypted"
  ELSE "signed"

\* let type ...
ResponseType(signed, encrypted) ==
  IF signed /\ encrypted THEN "signed encrypted"
  ELSE IF encrypted THEN "encrypted"
  ELSE "signed"

\* Mutant: the state check is applied to signed responses only.
ValidateAndReturn_EncryptedUnchecked ==
  /\ jpc = "validate"
  /\ UNCHANGED <<verifierVars, builderVars, keyVars, asn1Vars>>
  /\ IF responseIsSigned /\ ValidateParamsThrows(authRequestParams, authResponseParams)
     THEN Throw("StateMismatch")
     ELSE /\ jresult' = Returned(authRequestParams, authResponseParams,
                                 ResponseType(responseIsSigned, responseIsEncrypted))
          /\ jpc' = "done"
  /\ UNCHANGED <<response, created, responseIsEncrypted, decryptedResponse,
                 responseIsSigned, authResponseParams, authRequestParams, jlog>>

\* Mutant: the request parameters are returned in place of the response parameters.
ValidateAndReturn_ReturnsRequest ==
  /\ jpc = "validate"
  /\ UNCHANGED <<verifierVars, builderVars, keyVars, asn1Vars>>
  /\ IF ValidateParamsThrows(authRequestParams, authResponseParams)
     THEN Throw("StateMismatch")
     ELSE /\ jresult' = Returned(authRequestParams, authRequestParams,
                                 ResponseType(responseIsSigned, responseIsEncrypted))
          /\ jpc' = "done"
  /\ UNCHANGED <<response, created, responseIsEncrypted, decryptedResponse,
                 responseIsSigned, authResponseParams, authRequestParams, jlog>>

\* jarmAuthResponseDirectPostValidateParams(..); compute type; return
ValidateAndReturn ==
  /\ jpc = "validate"
  /\ UNCHANGED <<verifierVars, builderVars, keyVars, asn1Vars>>
  /\ IF ValidateParamsThrows(authRequestParams, authResponseParams)
     THEN Throw("StateMismatch")
     ELSE /\ jresult' = Returned(authRequestParams, authResponseParams,
                                 ResponseType(responseIsSigned, responseIsEncrypted))
          /\ jpc' = "done"
  /\ UNCHANGED <<response, created, responseIsEncrypted, decryptedResponse,
                 responseIsSigned, authResponseParams, authRequestParams, jlog>>

JarmNext ==
  \/ Receive
  \/ CreateAndSend
  \/ decryptJarmAuthResponse
  \/ Classify
  \/ ParseSigned
  \/ ParseJson
  \/ GetParamsSigned
  \/ GetParamsJson
  \/ VerifySigned
  \/ ValidateAndReturn

-----------------------------------------------------------------------------
(* mdoc Verifier: Verifier.verify and its three per-document procedures *)

Times == 0..MaxTime

\* dr.version as the parser may hand it over: undefined, an empty string, a
\* string that is no version number, or a dotted version number.
Versions == {"undefined", "", "draft", "0.9", "1.0", "1.1"}
Truthy(v) == v \notin {"undefined", ""}

\* compare-versions: the argument must be a string that matches the version
\* pattern; its numeric segments are compared left to right.
SemverSegments == ("0.9" :> <<0, 9>>) @@ ("1.0" :> <<1, 0>>) @@ ("1.1" :> <<1, 1>>)
IsSemver(v) == v \in DOMAIN SemverSegments
CompareSegment(a, b) == IF a > b THEN 1 ELSE IF a < b THEN -1 ELSE 0
compareVersions(v1, v2) ==
  LET a == SemverSegments[v1]
      b == SemverSegments[v2]
  IN  IF CompareSegment(a[1], b[1]) # 0
        THEN CompareSegment(a[1], b[1])
        ELSE CompareSegment(a[2], b[2])

DIGEST_ALGS == {"SHA-256", "SHA-384", "SHA-512"}
DigestAlgorithms == {"undefined", "SHA-256", "MD5"}

MDL_NAMESPACE == "org.iso.18013.5.1"
OtherNamespace == "com.example.other"
NameSpaceLists ==
  {<<>>, <<MDL_NAMESPACE>>, <<OtherNamespace>>,
   <<MDL_NAMESPACE, OtherNamespace>>, <<OtherNamespace, MDL_NAMESPACE>>}
NameSpaceSet(l) == {l[i] : i \in 1..Len(l)}

\* A disclosed item: digestEqual says whether the digest calculated over the item
\* equals valueDigests[ns][digestID] of the MSO, matchCertificate what the
\* comparison with the DS certificate's subject says.
ElementIdentifiers == {"issuing_country", "issuing_jurisdiction", "family_name"}
Items == [elementIdentifier : ElementIdentifiers, digestEqual : BOOLEAN, matchCertificate : BOOLEAN]
ItemLists == UNION {[1..n -> Items] : n \in 0..MaxItems}

VerifyOptions ==
  [encodedSessionTranscript : BOOLEAN,
   ephemeralReaderKey : BOOLEAN,
   disableCertificateChainValidation : BOOLEAN,
   issuersRootCertificates : {<<>>, <<"iaca">>}]

CertificateValidityData == {w \in [notBefore : Times, notAfter : Times] : w.notBefore <= w.notAfter}

Assessment(category, check, status, reason, ns, id) ==
  [category |-> category, check |-> check, status |-> status, reason |-> reason,
   ns |-> ns, id |-> id]
\* onCatCheck: the callback of one category.
onCheck(category, check, status) == Assessment(category, check, status, "", "", "")
Status(passed) == IF passed THEN "PASSED" ELSE "FAILED"
HasFailed(as) == \E i \in 1..Len(as) : as[i].status = "FAILED"

VPending == [kind |-> "pending", error |-> "none"]
VReturned == [kind |-> "returned", error |-> "none"]
VThrew(e) == [kind |-> "threw", error |-> e]

NoOptions ==
  [encodedSessionTranscript |-> FALSE, ephemeralReaderKey |-> FALSE,
   disableCertificateChainValidation |-> FALSE, issuersRootCertificates |-> <<>>]
NoInput == [step |-> "none"]

\* The history of delivered assessments, kept as the runs of equal entries.
RECURSIVE Note(_, _, _)
Note(t, doc, as) ==
  IF as = <<>> THEN t
  ELSE LET e == <<doc, Head(as).category>>
       IN  Note(IF t # <<>> /\ t[Len(t)] = e THEN t ELSE Append(t, e), doc, Tail(as))

RECURSIVE NoteNs(_, _)
NoteNs(t, as) ==
  IF as = <<>> THEN t
  ELSE LET ns == Head(as).ns
       IN  NoteNs(IF ns = "" \/ (t # <<>> /\ t[Len(t)] = ns) THEN t ELSE Append(t, ns),
                  Tail(as))

\* The user callback receives the assessments of this step, in order.
Deliver(as) ==
  /\ assessments' = as
  /\ failedSeen' = (failedSeen \/ HasFailed(as))
  /\ trail' = Note(trail, docIdx, as)

\* The step ends verify with an error for the caller.
VThrow(e) ==
  /\ vresult' = VThrew(e)
  /\ vpc' = "done"

\* verify is called: parse, then the three DOCUMENT_FORMAT checks.
verify ==
  /\ vpc = "idle"
  /\ UNCHANGED <<jarmVars, builderVars, keyVars, asn1Vars>>
  /\ \E options \in VerifyOptions, parses \in BOOLEAN, version \in Versions,
        documents \in 0..MaxDocs :
       /\ voptions' = options
       /\ vin' = [step |-> "verify", parses |-> parses,
                  version |-> IF parses THEN version ELSE "undefined"]
       /\ vcalls' = <<>>
       /\ UNCHANGED <<docIdx, pendingNs, msoDigests, nsTrail>>
       /\ IF ~parses
            THEN /\ Deliver(<<>>)
                 /\ VThrow("MDLParseError")
                 /\ UNCHANGED dr
            ELSE /\ dr' = [documents |-> documents]
                 /\ IF ~IsSemver(version)
                      THEN \* compareVersions rejects its argument
                           /\ Deliver(<<onCheck("DOCUMENT_FORMAT", "version", Status(Truthy(version)))>>)
                           /\ VThrow("CompareVersionsError")
                      ELSE /\ Deliver(<<onCheck("DOCUMENT_FORMAT", "version", Status(Truthy(version))),
                                        onCheck("DOCUMENT_FORMAT", "version>=1.0",
                                                Status(compareVersions(version, "1.0") >= 0)),
                                        onCheck("DOCUMENT_FORMAT", "documents", Status(documents > 0))>>)
                           /\ vpc' = "loop"
                           /\ UNCHANGED vresult

\* for (const document of dr.documents): the next document's issuer check starts.
nextDocument ==
  /\ vpc = "loop"
  /\ UNCHANGED <<jarmVars, builderVars, keyVars, asn1Vars>>
  /\ docIdx < dr.documents
  /\ docIdx' = docIdx + 1
  /\ vpc' = "issuer"
  /\ UNCHANGED <<voptions, dr, vin, pendingNs, msoDigests, nsTrail, assessments, trail, vcalls,
                 failedSeen, vresult>>

\* return dr
returnResponse ==
  /\ vpc = "loop"
  /\ UNCHANGED <<jarmVars, builderVars, keyVars, asn1Vars>>
  /\ docIdx >= dr.documents
  /\ vresult' = VReturned
  /\ vpc' = "done"
  /\ UNCHANGED <<voptions, dr, docIdx, vin, pendingNs, msoDigests, nsTrail, assessments, trail, vcalls,
                 failedSeen>>

\* verifyIssuerSignature up to the chain validation: certificate and alg.
verifyIssuerSignature ==
  /\ vpc = "issuer"
  /\ UNCHANGED <<jarmVars, builderVars, keyVars, asn1Vars>>
  /\ \E certificate \in BOOLEAN, algName \in BOOLEAN, countryName \in BOOLEAN :
       /\ vin' = [step |-> "issuer", certificate |-> certificate, algName |-> algName,
                  countryName |-> countryName]
       /\ vcalls' = <<"getIssuingCountry">>
       /\ IF ~certificate
            THEN /\ Deliver(<<onCheck("ISSUER_AUTH", "certificate", "FAILED")>>)
                 /\ vpc' = "device"
            ELSE IF ~algName
              THEN /\ Deliver(<<onCheck("ISSUER_AUTH", "alg", "FAILED")>>)
                   /\ vpc' = "device"
              ELSE /\ Deliver(<<>>)
                   /\ vpc' = IF voptions.disableCertificateChainValidation
                               THEN "issuerSignature" ELSE "issuerChain"
       /\ UNCHANGED <<voptions, dr, docIdx, pendingNs, msoDigests, nsTrail, vresult>>

\* The certificate chains a document may carry in issuerAuth (x5chain): one
\* issued under the verifier's trust anchor, one issued by somebody else.
X5Chains == {<<"ds">>, <<"rogue">>}

\* The try block with the throw propagating to the caller of verify.
validateCertificateChain_Propagates ==
  /\ vpc = "issuerChain"
  /\ UNCHANGED <<jarmVars, builderVars, keyVars, asn1Vars>>
  /\ \E chainValid \in BOOLEAN, x5chain \in X5Chains :
       /\ IF Len(voptions.issuersRootCertificates) = 0
            THEN /\ vin' = [vin EXCEPT !.step = "issuerChain"]
                 /\ vcalls' = <<>>
                 /\ Deliver(<<>>)
                 /\ VThrow("No root certificate found")
            ELSE /\ vin' = [step |-> "issuerChain", certificate |-> vin.certificate,
                            algName |-> vin.algName, countryName |-> vin.countryName,
                            chainValid |-> chainValid, x5chain |-> x5chain,
                            certificates |-> voptions.issuersRootCertificates]
                 /\ vcalls' = <<"validateCertificateChain">>
                 /\ IF chainValid
                      THEN Deliver(<<onCheck("ISSUER_AUTH", "chain", "PASSED")>>)
                      ELSE Deliver(<<Assessment("ISSUER_AUTH", "chain", "FAILED",
                                                "rejected", "", "")>>)
                 /\ vpc' = "issuerSignature"
                 /\ UNCHANGED vresult
       /\ UNCHANGED <<voptions, dr, docIdx, pendingNs, msoDigests, nsTrail>>

\* The try block around x509.validateCertificateChain: the throw for a missing
\* root certificate is inside the try; the call's only argument is
\* certificates, the verifier's root certificates.
validateCertificateChain ==
  /\ vpc = "issuerChain"
  /\ UNCHANGED <<jarmVars, builderVars, keyVars, asn1Vars>>
  /\ \E chainValid \in BOOLEAN, x5chain \in X5Chains :
       /\ IF Len(voptions.issuersRootCertificates) = 0
            THEN /\ vin' = [vin EXCEPT !.step = "issuerChain"]
                 /\ vcalls' = <<>>
                 /\ Deliver(<<Assessment("ISSUER_AUTH", "chain", "FAILED",
                                         "No root certificate found", "", "")>>)
            ELSE /\ vin' = [step |-> "issuerChain", certificate |-> vin.certificate,
                            algName |-> vin.algName, countryName |-> vin.countryName,
                            chainValid |-> chainValid, x5chain |-> x5chain,
                            certificates |-> voptions.issuersRootCertificates]
                 /\ vcalls' = <<"validateCertificateChain">>
                 /\ IF chainValid
                      THEN Deliver(<<onCheck("ISSUER_AUTH", "chain", "PASSED")>>)
                      ELSE Deliver(<<Assessment("ISSUER_AUTH", "chain", "FAILED",
                                                "rejected", "", "")>>)
       /\ vpc' = "issuerSignature"
       /\ UNCHANGED <<voptions, dr, docIdx, pendingNs, msoDigests, nsTrail, vresult>>

KeyOutcomes == {"key", "undefined", "rejects"}
VerifyOutcomes == {"valid", "invalid", "rejects"}

\* The signature step returning from verifyIssuerSignature when the signature
\* is not valid.
issuerSignature_StopsOnFailed ==
  /\ vpc = "issuerSignature"
  /\ UNCHANGED <<jarmVars, builderVars, keyVars, asn1Vars>>
  /\ \E key \in KeyOutcomes, verified \in VerifyOutcomes :
       /\ vin' = [step |-> "issuerSignature", certificate |-> vin.certificate,
                  algName |-> vin.algName, countryName |-> vin.countryName,
                  key |-> key, verified |-> IF key = "key" THEN verified ELSE "none"]
       /\ vcalls' = IF key = "key" THEN <<"getPublicKey", "issuerAuth.verify">> ELSE <<"getPublicKey">>
       /\ IF key = "rejects" \/ (key = "key" /\ verified = "rejects")
            THEN /\ Deliver(<<>>)
                 /\ VThrow("CapabilityRejected")
            ELSE /\ Deliver(<<onCheck("ISSUER_AUTH", "signature",
                                      Status(key = "key" /\ verified = "valid"))>>)
                 /\ vpc' = IF key = "key" /\ verified = "valid" THEN "issuerValidity" ELSE "device"
                 /\ UNCHANGED vresult
       /\ UNCHANGED <<voptions, dr, docIdx, pendingNs, msoDigests, nsTrail>>

\* x509.getPublicKey, issuerAuth.verify and the signature assessment.
issuerSignature ==
  /\ vpc = "issuerSignature"
  /\ UNCHANGED <<jarmVars, builderVars, keyVars, asn1Vars>>
  /\ \E key \in KeyOutcomes, verified \in VerifyOutcomes :
       /\ vin' = [step |-> "issuerSignature", certificate |-> vin.certificate,
                  algName |-> vin.algName, countryName |-> vin.countryName,
                  key |-> key, verified |-> IF key = "key" THEN verified ELSE "none"]
       /\ vcalls' = IF key = "key" THEN <<"getPublicKey", "issuerAuth.verify">> ELSE <<"getPublicKey">>
       /\ IF key = "rejects" \/ (key = "key" /\ verified = "rejects")
            THEN /\ Deliver(<<>>)
                 /\ VThrow("CapabilityRejected")
            ELSE /\ Deliver(<<onCheck("ISSUER_AUTH", "signature",
                                      Status(key = "key" /\ verified = "valid"))>>)
                 /\ vpc' = "issuerValidity"
                 /\ UNCHANGED vresult
       /\ UNCHANGED <<voptions, dr, docIdx, pendingNs, msoDigests, nsTrail>>

\* x509.getCertificateValidityData and the signed-date assessment.
\* signed is the set holding validityInfo.signed, empty when the MSO has no validityInfo.
issuerValidity ==
  /\ vpc = "issuerValidity"
  /\ UNCHANGED <<jarmVars, builderVars, keyVars, asn1Vars>>
  /\ \E signed \in {{}} \cup {{t} : t \in Times},
        certificateValidityData \in {{}} \cup {{w} : w \in CertificateValidityData} :
       /\ vin' = [step |-> "issuerValidity", certificate |-> vin.certificate,
                  countryName |-> vin.countryName, signed |-> signed,
                  certificateValidityData |-> certificateValidityData]
       /\ vcalls' = <<"getCertificateValidityData">>
       /\ IF certificateValidityData = {}
            THEN /\ Deliver(<<>>)
                 /\ VThrow("CapabilityRejected")
            ELSE IF signed = {}
              THEN \* the reason text reads validityInfo.signed before onCheck is called
                   /\ Deliver(<<>>)
                   /\ VThrow("TypeError")
              ELSE LET t == CHOOSE x \in signed : TRUE
                       w == CHOOSE x \in certificateValidityData : TRUE
                   IN  /\ Deliver(<<onCheck("ISSUER_AUTH", "signedWithinCertificateValidity",
                                            Status(~(vin.certificate /\
                                                     (t < w.notBefore \/ t > w.notAfter))))>>)
                       /\ vpc' = "issuerValidNow"
                       /\ UNCHANGED vresult
       /\ UNCHANGED <<voptions, dr, docIdx, pendingNs, msoDigests, nsTrail>>

\* The valid-at-verification-time assessment with the window's ends left out.
issuerValidNow_Exclusive ==
  /\ vpc = "issuerValidNow"
  /\ UNCHANGED <<jarmVars, builderVars, keyVars, asn1Vars>>
  /\ \E validFrom \in Times, validUntil \in Times, now \in Times :
       /\ vin' = [step |-> "issuerValidNow", countryName |-> vin.countryName,
                  validFrom |-> validFrom, validUntil |-> validUntil, now |-> now]
       /\ vcalls' = <<>>
       /\ Deliver(<<onCheck("ISSUER_AUTH", "validNow",
                            Status(~(now <= validFrom \/ now >= validUntil))),
                    onCheck("ISSUER_AUTH", "countryName", Status(vin.countryName))>>)
       /\ vpc' = "device"
       /\ UNCHANGED <<voptions, dr, docIdx, pendingNs, msoDigests, nsTrail, vresult>>

\* The valid-at-verification-time and country assessments.
issuerValidNow ==
  /\ vpc = "issuerValidNow"
  /\ UNCHANGED <<jarmVars, builderVars, keyVars, asn1Vars>>
  /\ \E validFrom \in Times, validUntil \in Times, now \in Times :
       /\ vin' = [step |-> "issuerValidNow", countryName |-> vin.countryName,
                  validFrom |-> validFrom, validUntil |-> validUntil, now |-> now]
       /\ vcalls' = <<>>
       /\ Deliver(<<onCheck("ISSUER_AUTH", "validNow",
                            Status(~(now < validFrom \/ now > validUntil))),
                    onCheck("ISSUER_AUTH", "countryName", Status(vin.countryName))>>)
       /\ vpc' = "device"
       /\ UNCHANGED <<voptions, dr, docIdx, pendingNs, msoDigests, nsTrail, vresult>>

DeviceInputs ==
  [isDeviceSigned : BOOLEAN, deviceSignature : BOOLEAN, deviceMac : BOOLEAN,
   deviceKey : BOOLEAN, hasSupportedAlg : BOOLEAN]

\* MAC authentication with every gate assessed, whatever the gates before it said.
MacGates_NoEarlyReturn(d, ephemeralPrivateKey) ==
  <<onCheck("DEVICE_AUTH", "deviceMac", Status(d.deviceMac)),
    onCheck("DEVICE_AUTH", "macAlg", Status(d.hasSupportedAlg)),
    onCheck("DEVICE_AUTH", "ephemeralPrivateKey", Status(ephemeralPrivateKey))>>

\* MAC authentication up to the try block: three onCheck calls, each followed
\* by a return when its condition fails.
MacGates(d, ephemeralPrivateKey) ==
  <<onCheck("DEVICE_AUTH", "deviceMac", Status(d.deviceMac))>>
  \o (IF ~d.deviceMac THEN <<>>
      ELSE <<onCheck("DEVICE_AUTH", "macAlg", Status(d.hasSupportedAlg))>>
           \o (IF ~d.hasSupportedAlg THEN <<>>
               ELSE <<onCheck("DEVICE_AUTH", "ephemeralPrivateKey",
                              Status(ephemeralPrivateKey))>>))

\* verifyDeviceSignature without the test for the device key.
verifyDeviceSignature_NoDeviceKeyCheck ==
  /\ vpc = "device"
  /\ UNCHANGED <<jarmVars, builderVars, keyVars, asn1Vars>>
  /\ \E d \in DeviceInputs :
       /\ vin' = [step |-> "device", document |-> d]
       /\ vcalls' = <<>>
       /\ IF ~d.isDeviceSigned
            THEN /\ Deliver(<<onCheck("DEVICE_AUTH", "deviceSigned", "FAILED")>>)
                 /\ vpc' = "data"
          ELSE IF ~d.deviceMac /\ ~d.deviceSignature
            THEN /\ Deliver(<<onCheck("DEVICE_AUTH", "deviceAuth", "FAILED")>>)
                 /\ vpc' = "data"
          ELSE IF ~voptions.encodedSessionTranscript
            THEN /\ Deliver(<<onCheck("DEVICE_AUTH", "sessionTranscript", "FAILED")>>)
                 /\ vpc' = "data"
          ELSE IF d.deviceSignature
            THEN /\ Deliver(<<>>)
                 /\ vpc' = "deviceSignature"
          ELSE /\ Deliver(MacGates(d, voptions.ephemeralReaderKey))
               /\ vpc' = IF HasFailed(MacGates(d, voptions.ephemeralReaderKey))
                           THEN "data" ELSE "deviceMac"
       /\ UNCHANGED <<voptions, dr, docIdx, pendingNs, msoDigests, nsTrail, vresult>>

\* verifyDeviceSignature up to its first await: every check that returns early.
verifyDeviceSignature ==
  /\ vpc = "device"
  /\ UNCHANGED <<jarmVars, builderVars, keyVars, asn1Vars>>
  /\ \E d \in DeviceInputs :
       /\ vin' = [step |-> "device", document |-> d]
       /\ vcalls' = <<>>
       /\ IF ~d.isDeviceSigned
            THEN /\ Deliver(<<onCheck("DEVICE_AUTH", "deviceSigned", "FAILED")>>)
                 /\ vpc' = "data"
          ELSE IF ~d.deviceMac /\ ~d.deviceSignature
            THEN /\ Deliver(<<onCheck("DEVICE_AUTH", "deviceAuth", "FAILED")>>)
                 /\ vpc' = "data"
          ELSE IF ~voptions.encodedSessionTranscript
            THEN /\ Deliver(<<onCheck("DEVICE_AUTH", "sessionTranscript", "FAILED")>>)
                 /\ vpc' = "data"
          ELSE IF ~d.deviceKey
            THEN /\ Deliver(<<Assessment("DEVICE_AUTH", "deviceKey", "FAILED",
                                         "missing device key in issuerAuth", "", "")>>)
                 /\ vpc' = "data"
          ELSE IF d.deviceSignature
            THEN /\ Deliver(<<>>)
                 /\ vpc' = "deviceSignature"
          ELSE /\ Deliver(MacGates(d, voptions.ephemeralReaderKey))
               /\ vpc' = IF HasFailed(MacGates(d, voptions.ephemeralReaderKey))
                           THEN "data" ELSE "deviceMac"
       /\ UNCHANGED <<voptions, dr, docIdx, pendingNs, msoDigests, nsTrail, vresult>>

DeviceOutcomes == {"valid", "invalid", "keyRejects", "verifyRejects"}

\* The try block of the ECDSA/EdDSA authentication: jose.importJwk, Sign1.verify.
deviceSignatureVerify ==
  /\ vpc = "deviceSignature"
  /\ UNCHANGED <<jarmVars, builderVars, keyVars, asn1Vars>>
  /\ \E outcome \in DeviceOutcomes :
       /\ vin' = [step |-> "deviceSignature", document |-> vin.document, outcome |-> outcome]
       /\ vcalls' = IF outcome = "keyRejects" THEN <<"importJwk">> ELSE <<"importJwk", "Sign1.verify">>
       /\ IF outcome \in {"valid", "invalid"}
            THEN Deliver(<<onCheck("DEVICE_AUTH", "deviceSignatureValid", Status(outcome = "valid"))>>)
            ELSE Deliver(<<Assessment("DEVICE_AUTH", "deviceSignatureValid", "FAILED",
                                      "Unable to verify deviceAuth signature (ECDSA/EdDSA)", "", "")>>)
       /\ vpc' = "data"
       /\ UNCHANGED <<voptions, dr, docIdx, pendingNs, msoDigests, nsTrail, vresult>>

\* The try block of the MAC authentication: crypto.calculateEphemeralMacKey, deviceMac.verify.
deviceMacVerify ==
  /\ vpc = "deviceMac"
  /\ UNCHANGED <<jarmVars, builderVars, keyVars, asn1Vars>>
  /\ \E outcome \in DeviceOutcomes :
       /\ vin' = [step |-> "deviceMac", document |-> vin.document, outcome |-> outcome]
       /\ vcalls' = IF outcome = "keyRejects"
                      THEN <<"calculateEphemeralMacKey">>
                      ELSE <<"calculateEphemeralMacKey", "deviceMac.verify">>
       /\ IF outcome \in {"valid", "invalid"}
            THEN Deliver(<<onCheck("DEVICE_AUTH", "deviceMacValid", Status(outcome = "valid"))>>)
            ELSE Deliver(<<Assessment("DEVICE_AUTH", "deviceMacValid", "FAILED",
                                      "Unable to verify deviceAuth MAC", "", "")>>)
       /\ vpc' = "data"
       /\ UNCHANGED <<voptions, dr, docIdx, pendingNs, msoDigests, nsTrail, vresult>>

\* A namespace check that looks the namespace up among its own items, not in the MSO.
NamespaceDigestChecks_NotInMso(nameSpaces, valueDigests) ==
  [i \in 1..Len(nameSpaces) |->
     Assessment("DATA_INTEGRITY", "namespaceDigests", "FAILED", "", nameSpaces[i], "")]

\* The first onCheck of every namespace callback, run while Object.entries is mapped.
RECURSIVE NamespaceDigestChecks(_, _)
NamespaceDigestChecks(nameSpaces, valueDigests) ==
  IF nameSpaces = <<>> THEN <<>>
  ELSE <<Assessment("DATA_INTEGRITY", "namespaceDigests",
                    Status(Head(nameSpaces) \in valueDigests), "", Head(nameSpaces), "")>>
       \o NamespaceDigestChecks(Tail(nameSpaces), valueDigests)

\* verifyData up to its await: the digestAlgorithm check and, for every namespace
\* in order, the part of its callback that runs before the digests are awaited.
verifyData ==
  /\ vpc = "data"
  /\ UNCHANGED <<jarmVars, builderVars, keyVars, asn1Vars>>
  /\ \E digestAlgorithm \in DigestAlgorithms, nameSpaces \in NameSpaceLists,
        valueDigests \in SUBSET {MDL_NAMESPACE, OtherNamespace} :
       /\ vin' = [step |-> "data", digestAlgorithm |-> digestAlgorithm,
                  nameSpaces |-> nameSpaces, valueDigests |-> valueDigests]
       /\ vcalls' = <<>>
       /\ Deliver(<<onCheck("DATA_INTEGRITY", "digestAlgorithm",
                            Status(digestAlgorithm # "undefined" /\ digestAlgorithm \in DIGEST_ALGS))>>
                  \o NamespaceDigestChecks(nameSpaces, valueDigests))
       /\ msoDigests' = valueDigests
       /\ nsTrail' = NoteNs(<<>>, NamespaceDigestChecks(nameSpaces, valueDigests))
       /\ pendingNs' = NameSpaceSet(nameSpaces)
       /\ vpc' = "dataWait"
       /\ UNCHANGED <<voptions, dr, docIdx, vresult>>

\* An isValid that looks for the namespace's digests and not at the item's.
isValid_AnyDigest(ns, item, valueDigests) == ns \in valueDigests

\* IssuerSignedItem.isValid: false when the MSO has no digests for the namespace,
\* else whether the calculated digest equals the MSO's digest for the item.
isValid(ns, item, valueDigests) == ns \in valueDigests /\ item.digestEqual

\* verifications.filter(v => v.isValid) and .filter(v => !v.isValid), each forEach
RECURSIVE DigestChecks(_, _, _, _)
DigestChecks(ns, items, valueDigests, valid) ==
  IF items = <<>> THEN <<>>
  ELSE (IF isValid(ns, Head(items), valueDigests) = valid
          THEN <<Assessment("DATA_INTEGRITY", "digest", Status(valid), "", ns,
                            Head(items).elementIdentifier)>>
          ELSE <<>>)
       \o DigestChecks(ns, Tail(items), valueDigests, valid)

\* A find that asks for the certificate match only.
Invalid_MatchOnly(ns, items, valueDigests, id) ==
  \E i \in 1..Len(items) :
    /\ items[i].elementIdentifier = id
    /\ ~items[i].matchCertificate

\* verifications.filter(id).find(v => !v.isValid || !v.ev.matchCertificate(...))
Invalid(ns, items, valueDigests, id) ==
  \E i \in 1..Len(items) :
    /\ items[i].elementIdentifier = id
    /\ (~isValid(ns, items[i], valueDigests) \/ ~items[i].matchCertificate)

\* A callback that makes the certificate comparison for every namespace.
NamespaceChecks_EveryNamespace(ns, items, valueDigests, issuer) ==
  DigestChecks(ns, items, valueDigests, TRUE) \o DigestChecks(ns, items, valueDigests, FALSE)
  \o (IF ~issuer
        THEN <<Assessment("DATA_INTEGRITY", "issuing_country", "FAILED",
                          "the DS certificate was not provided", ns, "")>>
        ELSE <<Assessment("DATA_INTEGRITY", "issuing_country",
                          Status(~Invalid(ns, items, valueDigests, "issuing_country")),
                          "", ns, ""),
               Assessment("DATA_INTEGRITY", "issuing_jurisdiction",
                          Status(~Invalid(ns, items, valueDigests, "issuing_jurisdiction")),
                          "", ns, "")>>)

\* What one namespace callback delivers after its digests have resolved.
NamespaceChecks(ns, items, valueDigests, issuer) ==
  DigestChecks(ns, items, valueDigests, TRUE) \o DigestChecks(ns, items, valueDigests, FALSE)
  \o (IF ns # MDL_NAMESPACE THEN <<>>
      ELSE IF ~issuer
        THEN <<Assessment("DATA_INTEGRITY", "issuing_country", "FAILED",
                          "the DS certificate was not provided", ns, "")>>
        ELSE <<Assessment("DATA_INTEGRITY", "issuing_country",
                          Status(~Invalid(ns, items, valueDigests, "issuing_country")),
                          "", ns, ""),
               Assessment("DATA_INTEGRITY", "issuing_jurisdiction",
                          Status(~Invalid(ns, items, valueDigests, "issuing_jurisdiction")),
                          "", ns, "")>>)

\* What the namespace callback does not read stays at its default: a digest is
\* calculated only when the MSO has digests for the namespace, and matchCertificate
\* is asked only of a valid issuing_country or issuing_jurisdiction item of the mDL
\* namespace when the issuer name is known.
ReadOfItem(ns, item, valueDigests, issuer) ==
  /\ ~item.digestEqual => ns \in valueDigests
  /\ ~item.matchCertificate =>
       /\ issuer
       /\ isValid(ns, item, valueDigests)
       /\ item.elementIdentifier \in {"issuing_country", "issuing_jurisdiction"}
ReadByCallback(ns, items, valueDigests, issuer, rejected) ==
  /\ rejected => (~issuer /\ Len(items) > 0 /\ ns \in valueDigests)
  /\ ns # MDL_NAMESPACE => ~issuer
  /\ \A i \in 1..Len(items) : ReadOfItem(ns, items[i], valueDigests, issuer)

\* The rest of one namespace's callback, once all its items' digests have resolved.
\* The callbacks of Promise.all run on their own: one that rejects makes verify
\* throw, and the others still run to their end afterwards.
verifyNamespace ==
  /\ pendingNs # {}
  /\ UNCHANGED <<jarmVars, builderVars, keyVars, asn1Vars>>
  /\ \E ns \in pendingNs, issuer \in BOOLEAN, rejected \in BOOLEAN :
     \E items \in UNION {[1..n -> {it \in Items : ReadOfItem(ns, it, msoDigests, issuer)}] :
                           n \in 0..MaxItems} :
       /\ ReadByCallback(ns, items, msoDigests, issuer, rejected)
       /\ pendingNs' = pendingNs \ {ns}
       /\ vin' = [step |-> "namespace", ns |-> ns, items |-> items, issuer |-> issuer,
                  rejected |-> rejected, valueDigests |-> msoDigests]
       /\ vcalls' = [i \in 1..Len(items) |-> "isValid"]
                      \o (IF ns = MDL_NAMESPACE /\ ~rejected THEN <<"getIssuerName">> ELSE <<>>)
       /\ IF rejected
            THEN \* an item's digest computation rejects: Promise.all rejects
                 /\ Deliver(<<>>)
                 /\ UNCHANGED nsTrail
                 /\ IF vresult = VPending
                      THEN VThrow("CapabilityRejected")
                      ELSE UNCHANGED <<vpc, vresult>>
            ELSE /\ Deliver(NamespaceChecks(ns, items, msoDigests, issuer))
                 /\ nsTrail' = NoteNs(nsTrail, NamespaceChecks(ns, items, msoDigests, issuer))
                 /\ UNCHANGED <<vpc, vresult>>
       /\ UNCHANGED <<voptions, dr, docIdx, msoDigests>>

\* verifyData returning without awaiting the namespace callbacks.
verifyDataDone_NoAwait ==
  /\ vpc = "dataWait"
  /\ UNCHANGED <<jarmVars, builderVars, keyVars, asn1Vars>>
  /\ vpc' = "loop"
  /\ msoDigests' = {}
  /\ nsTrail' = <<>>
  /\ UNCHANGED <<voptions, dr, docIdx, vin, pendingNs, assessments, trail, vcalls,
                 failedSeen, vresult>>

\* await Promise.all(...) resolves: every namespace callback has finished.
verifyDataDone ==
  /\ vpc = "dataWait"
  /\ UNCHANGED <<jarmVars, builderVars, keyVars, asn1Vars>>
  /\ pendingNs = {}
  /\ vpc' = "loop"
  /\ msoDigests' = {}
  /\ nsTrail' = <<>>
  /\ UNCHANGED <<voptions, dr, docIdx, vin, pendingNs, assessments, trail, vcalls,
                 failedSeen, vresult>>

\* The capability set of ctx through which a call reaches the host.
ContextOf(call) ==
  CASE call \in {"validateCertificateChain", "getPublicKey", "getCertificateValidityData",
                 "getIssuingCountry"} -> "x509"
    [] call = "importJwk" -> "jose"
    [] call \in {"calculateEphemeralMacKey", "isValid"} -> "crypto"
    [] OTHER -> "cose"

VerifierNext ==
  \/ verify
  \/ nextDocument
  \/ returnResponse
  \/ verifyIssuerSignature
  \/ validateCertificateChain
  \/ issuerSignature
  \/ issuerValidity
  \/ issuerValidNow
  \/ verifyDeviceSignature
  \/ deviceSignatureVerify
  \/ deviceMacVerify
  \/ verifyData
  \/ verifyNamespace
  \/ verifyDataDone

-----------------------------------------------------------------------------
(* DeviceResponse: the device-response builder and its sign() *)

MdlDocType == "org.iso.18013.5.1.mDL"
PidDocType == "eu.europa.ec.eudi.pid.1"
MdlNameSpace == "org.iso.18013.5.1"
AamvaNameSpace == "org.iso.18013.5.1.aamva"
SourceNameSpaces == {MdlNameSpace, AamvaNameSpace}

\* An IssuerSignedItem of the source mdoc. Values are written as JS literals.
IssuerSignedItem(digestID, elementIdentifier, elementValue) ==
  [digestID |-> digestID, elementIdentifier |-> elementIdentifier,
   elementValue |-> elementValue]

\* parseInt(key.replace('age_over_', ''), 10) of the identifiers that start
\* with 'age_over_'.
AgeOverNN == [age_over_16 |-> 16, age_over_18 |-> 18, age_over_21 |-> 21,
              age_over_25 |-> 25]

startsWithAgeOver(elementIdentifier) == elementIdentifier \in DOMAIN AgeOverNN

\* What the issuer signed about an age threshold: no item, or its value.
AgeValues == {"absent", "true", "false"}

\* The items of the mDL namespace, in the order the issuer listed them.
MdlItems(over18, over21) ==
  (IF over21 = "absent" THEN <<>>
   ELSE <<IssuerSignedItem(1, "age_over_21", over21)>>)
  \o <<IssuerSignedItem(2, "family_name", "'Doe'")>>
  \o (IF over18 = "absent" THEN <<>>
      ELSE <<IssuerSignedItem(3, "age_over_18", over18)>>)

MdlDocument(over18, over21) ==
  [docType |-> MdlDocType,
   issuerSigned |->
     [nameSpaces |-> [ns \in SourceNameSpaces |->
                        IF ns = MdlNameSpace THEN MdlItems(over18, over21)
                        ELSE <<IssuerSignedItem(1, "family_name", "'DOE'")>>],
      issuerAuth |-> "issuerAuth of the mDL"]]

PidDocument ==
  [docType |-> PidDocType,
   issuerSigned |->
     [nameSpaces |-> [ns \in SourceNameSpaces |->
                        IF ns = MdlNameSpace
                        THEN <<IssuerSignedItem(1, "family_name", "'Roe'")>>
                        ELSE <<>>],
      issuerAuth |-> "issuerAuth of the PID"]]

\* The mdocs a builder is created from.
Mdocs ==
  {[documents |-> <<MdlDocument(over18, over21)>> \o rest] :
     over18 \in AgeValues, over21 \in AgeValues, rest \in {<<>>, <<PidDocument>>}}

NoMdoc == [documents |-> <<>>]

\* A field of an input descriptor: its paths "$['nameSpace']['elementIdentifier']",
\* each written as the two groups the regex extracts.
Field(paths) == [path |-> paths]

FieldLists ==
  {<<>>,
   <<Field(<<<<MdlNameSpace, "family_name">>>>)>>,
   <<Field(<<<<AamvaNameSpace, "family_name">>>>)>>,
   <<Field(<<<<MdlNameSpace, "given_name">>>>)>>,
   <<Field(<<<<MdlNameSpace, "given_name">>>>),
     Field(<<<<MdlNameSpace, "family_name">>>>)>>,
   <<Field(<<<<MdlNameSpace, "given_name">>, <<MdlNameSpace, "family_name">>>>)>>,
   <<Field(<<<<MdlNameSpace, "age_over_25">>, <<MdlNameSpace, "family_name">>>>)>>}
  \cup {<<Field(<<<<MdlNameSpace, request>>>>)>> : request \in DOMAIN AgeOverNN}

InputDescriptor(id, fields) == [id |-> id, constraints |-> [fields |-> fields]]

PresentationDefinitions ==
  {[input_descriptors |-> <<>>]}
  \cup {[input_descriptors |-> <<InputDescriptor(id, fields)>>] :
          id \in {MdlDocType, PidDocType}, fields \in FieldLists}
  \cup {[input_descriptors |->
           <<InputDescriptor(id1, <<Field(<<<<MdlNameSpace, "family_name">>>>)>>),
             InputDescriptor(id2, fields)>>] :
          id1 \in {MdlDocType, PidDocType}, id2 \in {MdlDocType, PidDocType},
          fields \in {<<>>, <<Field(<<<<MdlNameSpace, "family_name">>>>)>>}}

SupportedAlgs == {"ES256"}

\* The MAC algs of the COSE layer and their COSE labels.
MacAlgorithms == [HS256 |-> 5, HS384 |-> 6, HS512 |-> 7]

\* The alg values authenticateWithMAC is called with.
MacAlgs == {"HS256", "HS384"}

BuilderCall(op, arg, error) == [op |-> op, arg |-> arg, error |-> error]

NoCall == BuilderCall("none", <<>>, "none")

BPending == [kind |-> "pending", error |-> "none", documents |-> <<>>]

BThrow(error) == [kind |-> "threw", error |-> error, documents |-> <<>>]

BReturn(docs) == [kind |-> "MDoc", error |-> "none", documents |-> docs]

\* DeviceResponse.from / the constructor.
DeviceResponse_from ==
  /\ bpc = "idle"
  /\ UNCHANGED <<jarmVars, verifierVars, keyVars, asn1Vars>>
  /\ UNCHANGED lastAuth
  /\ \E m \in Mdocs : mdoc' = m
  /\ bpc' = "building"
  /\ blast' = BuilderCall("from", <<>>, "none")
  /\ UNCHANGED <<pd, handover, useMac, devicePrivateKey, alg, macAlg,
                 ephemeralPublicKey, bresult>>

\* pd.input_descriptors.some((id1, idx) => findIndex(id2 => id2.id === id1.id) !== idx)
hasDuplicates(p) ==
  \E idx \in 1..Len(p.input_descriptors) :
    \E other \in 1..(idx - 1) :
      p.input_descriptors[other].id = p.input_descriptors[idx].id

usingPresentationDefinition_AssignFirst ==
  /\ bpc = "building"
  /\ UNCHANGED <<jarmVars, verifierVars, keyVars, asn1Vars>>
  /\ UNCHANGED lastAuth
  /\ \E p \in PresentationDefinitions :
       /\ pd' = <<p>>
       /\ blast' = BuilderCall("usingPresentationDefinition", <<p>>,
            IF Len(p.input_descriptors) = 0
            THEN "The Presentation Definition must have at least one Input Descriptor object."
            ELSE IF hasDuplicates(p)
            THEN "Each Input Descriptor object must have a unique id property."
            ELSE "none")
  /\ UNCHANGED <<bpc, mdoc, handover, useMac, devicePrivateKey, alg, macAlg,
                 ephemeralPublicKey, bresult>>

usingPresentationDefinition ==
  /\ bpc = "building"
  /\ UNCHANGED <<jarmVars, verifierVars, keyVars, asn1Vars>>
  /\ UNCHANGED lastAuth
  /\ \E p \in PresentationDefinitions :
       IF Len(p.input_descriptors) = 0
       THEN /\ blast' = BuilderCall("usingPresentationDefinition", <<p>>,
                 "The Presentation Definition must have at least one Input Descriptor object.")
            /\ UNCHANGED pd
       ELSE IF hasDuplicates(p)
       THEN /\ blast' = BuilderCall("usingPresentationDefinition", <<p>>,
                 "Each Input Descriptor object must have a unique id property.")
            /\ UNCHANGED pd
       ELSE /\ pd' = <<p>>
            /\ blast' = BuilderCall("usingPresentationDefinition", <<p>>, "none")
  /\ UNCHANGED <<bpc, mdoc, handover, useMac, devicePrivateKey, alg, macAlg,
                 ephemeralPublicKey, bresult>>

NoAuth == [op |-> "none", alg |-> "undefined"]

usingHandover ==
  /\ bpc = "building"
  /\ UNCHANGED <<jarmVars, verifierVars, keyVars, asn1Vars>>
  /\ UNCHANGED lastAuth
  /\ handover' = TRUE
  /\ blast' = BuilderCall("usingHandover", <<>>, "none")
  /\ UNCHANGED <<bpc, mdoc, pd, useMac, devicePrivateKey, alg, macAlg,
                 ephemeralPublicKey, bresult>>

authenticateWithSignature ==
  /\ bpc = "building"
  /\ UNCHANGED <<jarmVars, verifierVars, keyVars, asn1Vars>>
  /\ \E a \in SupportedAlgs :
       /\ devicePrivateKey' = TRUE
       /\ alg' = a
       /\ useMac' = FALSE
       /\ lastAuth' = [op |-> "authenticateWithSignature", alg |-> a]
  /\ blast' = BuilderCall("authenticateWithSignature", <<>>, "none")
  /\ UNCHANGED <<bpc, mdoc, pd, handover, macAlg, ephemeralPublicKey, bresult>>

authenticateWithMAC ==
  /\ bpc = "building"
  /\ UNCHANGED <<jarmVars, verifierVars, keyVars, asn1Vars>>
  /\ \E a \in MacAlgs :
       /\ devicePrivateKey' = TRUE
       /\ ephemeralPublicKey' = TRUE
       /\ macAlg' = a
       /\ useMac' = TRUE
       /\ lastAuth' = [op |-> "authenticateWithMAC", alg |-> a]
  /\ blast' = BuilderCall("authenticateWithMAC", <<>>, "none")
  /\ UNCHANGED <<bpc, mdoc, pd, handover, alg, bresult>>

\* Array.prototype.find / findIndex: the first position that qualifies.
First(positions) == CHOOSE i \in positions : \A j \in positions : i <= j

RemoveAt(list, i) == SubSeq(list, 1, i - 1) \o SubSeq(list, i + 1, Len(list))

sortByNN_Unsorted(list, descending) == list

\* ageOverList.sort((a, b) => a.nn - b.nn) and .sort((a, b) => b.nn - a.nn):
\* Array.prototype.sort is stable.
RECURSIVE sortByNN(_, _)
sortByNN(list, descending) ==
  IF list = <<>> THEN <<>>
  ELSE LET first ==
             First({i \in 1..Len(list) :
                      \A j \in 1..Len(list) :
                        IF descending THEN list[j].nn <= list[i].nn
                        ELSE list[j].nn >= list[i].nn})
       IN <<list[first]>> \o sortByNN(RemoveAt(list, first), descending)

\* ageOverList.find(i => i.value === value && i.nn >= reqNN), or <= reqNN.
findNearest(list, value, reqNN, atLeast) ==
  LET hits == {i \in 1..Len(list) :
                 /\ list[i].value = value
                 /\ IF atLeast THEN list[i].nn >= reqNN ELSE list[i].nn <= reqNN}
  IN IF hits = {} THEN <<>> ELSE <<list[First(hits)]>>

\* The result is null (<<>>) or { nameSpace, digest }.
handleAgeOverNN(request, nameSpace, attributes) ==
  LET entries == [i \in 1..Len(attributes) |->
                    [key |-> attributes[i].elementIdentifier,
                     value |-> attributes[i].elementValue,
                     index |-> i,
                     nn |-> IF startsWithAgeOver(attributes[i].elementIdentifier)
                            THEN AgeOverNN[attributes[i].elementIdentifier] ELSE 0]]
      ageOverList == sortByNN(SelectSeq(entries, LAMBDA e : startsWithAgeOver(e.key)),
                              FALSE)
      reqNN == AgeOverNN[request]
      nearestTrue == findNearest(ageOverList, "true", reqNN, TRUE)
      item == IF nearestTrue # <<>> THEN nearestTrue
              ELSE findNearest(sortByNN(ageOverList, TRUE), "false", reqNN, FALSE)
  IN IF item = <<>> THEN <<>>
     ELSE <<[nameSpace |-> nameSpace, digest |-> attributes[item[1].index]]>>

RECURSIVE prepareDigest(_, _)
prepareDigest(paths, document) ==
  IF paths = <<>> THEN <<>>
  ELSE LET nameSpace == Head(paths)[1]
           elementIdentifier == Head(paths)[2]
           nsAttrs == IF nameSpace \in DOMAIN document.issuerSigned.nameSpaces
                      THEN document.issuerSigned.nameSpaces[nameSpace] ELSE <<>>
           hits == {i \in 1..Len(nsAttrs) :
                      nsAttrs[i].elementIdentifier = elementIdentifier}
       IN IF startsWithAgeOver(elementIdentifier)
          THEN handleAgeOverNN(elementIdentifier, nameSpace, nsAttrs)
          ELSE IF hits # {}
          THEN <<[nameSpace |-> nameSpace, digest |-> nsAttrs[First(hits)]]>>
          ELSE prepareDigest(Tail(paths), document)

\* The for-loop of prepareNamespaces over the requested fields.
RECURSIVE prepareFields(_, _, _)
prepareFields(fields, document, nameSpaces) ==
  IF fields = <<>> THEN nameSpaces
  ELSE LET result == prepareDigest(Head(fields).path, document)
       IN prepareFields(Tail(fields), document,
            IF result = <<>> THEN nameSpaces
            ELSE [nameSpaces EXCEPT ![result[1].nameSpace] =
                    Append(@, result[1].digest)])

prepareNamespaces_All(id, document) == document.issuerSigned.nameSpaces

\* A namespace nothing was pushed to is absent from the result: here <<>>.
prepareNamespaces(id, document) ==
  prepareFields(id.constraints.fields, document, [ns \in SourceNameSpaces |-> <<>>])

DeviceAuthError(error) == [error |-> error, deviceAuth |-> <<>>]

getDeviceAuthMac_NoKeyCheck(rejects) ==
  IF rejects THEN DeviceAuthError("CapabilityRejected")
  ELSE [error |-> "none",
        deviceAuth |-> <<[type |-> "deviceMac", alg |-> 5]>>]

\* rejects: ctx.crypto.calculateEphemeralMacKey or the MAC computation rejects.
getDeviceAuthMac(rejects) ==
  IF ~devicePrivateKey
  THEN DeviceAuthError("Missing devicePrivateKey for getDeviceAuthMac")
  ELSE IF ~ephemeralPublicKey
  THEN DeviceAuthError("Missing ephemeralPublicKey for getDeviceAuthMac")
  ELSE IF rejects THEN DeviceAuthError("CapabilityRejected")
  ELSE IF macAlg = "undefined" THEN DeviceAuthError("Missing macAlg")
  ELSE [error |-> "none",
        deviceAuth |-> <<[type |-> "deviceMac", alg |-> MacAlgorithms[macAlg]]>>]

\* rejects: ctx.jose.importJwk or the signature computation rejects.
getDeviceAuthSign(rejects) ==
  IF ~devicePrivateKey THEN DeviceAuthError("Missing devicePrivateKey")
  ELSE IF alg = "undefined" THEN DeviceAuthError("The alg header must be set.")
  ELSE IF rejects THEN DeviceAuthError("CapabilityRejected")
  ELSE [error |-> "none",
        deviceAuth |-> <<[type |-> "deviceSignature", alg |-> -7]>>]

\* The choice made by what an earlier authenticateWithMAC left behind.
getDeviceSigned_LeftOver(rejects) ==
  IF ephemeralPublicKey THEN getDeviceAuthMac(rejects) ELSE getDeviceAuthSign(rejects)

\* deviceAuth: this.useMac ? getDeviceAuthMac(...) : getDeviceAuthSign(...)
getDeviceSigned(rejects) ==
  IF useMac THEN getDeviceAuthMac(rejects) ELSE getDeviceAuthSign(rejects)

DocTypeNotFound == "The mdoc does not have a document with DocType"

\* The promise of one input descriptor: rejected before the first await (sync)
\* when no document has the docType, else settled after the awaits.
handleInputDescriptor(id, rejects) ==
  LET hits == {i \in 1..Len(mdoc.documents) : mdoc.documents[i].docType = id.id}
  IN IF hits = {}
     THEN [error |-> DocTypeNotFound, sync |-> TRUE, document |-> <<>>]
     ELSE LET document == mdoc.documents[First(hits)]
              nameSpaces == prepareNamespaces(id, document)
              deviceSigned == getDeviceSigned(rejects)
          IN IF deviceSigned.error # "none"
             THEN [error |-> deviceSigned.error, sync |-> FALSE, document |-> <<>>]
             ELSE [error |-> "none", sync |-> FALSE,
                   document |->
                     <<[docType |-> document.docType,
                        issuerSigned |->
                          [nameSpaces |-> nameSpaces,
                           issuerAuth |-> document.issuerSigned.issuerAuth],
                        deviceSigned |-> [deviceAuth |-> deviceSigned.deviceAuth[1]]]>>]

Rejected(outcomes, sync) ==
  {i \in 1..Len(outcomes) : outcomes[i].error # "none" /\ outcomes[i].sync = sync}

PromiseAll_SkipRejected(outcomes) ==
  {BReturn([i \in 1..Len(SelectSeq(outcomes, LAMBDA o : o.error = "none")) |->
              SelectSeq(outcomes, LAMBDA o : o.error = "none")[i].document[1]])}

\* Promise.all: rejects with the rejection that happens first. A promise that
\* was rejected before the map returned precedes every one rejected after an
\* await; among the latter the order is the host's.
PromiseAll(outcomes) ==
  IF Rejected(outcomes, TRUE) # {}
  THEN {BThrow(outcomes[First(Rejected(outcomes, TRUE))].error)}
  ELSE IF Rejected(outcomes, FALSE) # {}
  THEN {BThrow(outcomes[i].error) : i \in Rejected(outcomes, FALSE)}
  ELSE {BReturn([i \in 1..Len(outcomes) |-> outcomes[i].document[1]])}

sign ==
  /\ bpc = "building"
  /\ UNCHANGED <<jarmVars, verifierVars, keyVars, asn1Vars>>
  /\ UNCHANGED lastAuth
  /\ IF pd = <<>>
     THEN bresult' = BThrow("Must provide a presentation definition with .usingPresentationDefinition()")
     ELSE IF ~handover
     THEN bresult' = BThrow("Must provide handover data with .usingHandover()")
     ELSE \E rejects \in BOOLEAN :
            bresult' \in PromiseAll([i \in 1..Len(pd[1].input_descriptors) |->
                           handleInputDescriptor(pd[1].input_descriptors[i], rejects)])
  /\ bpc' = "signed"
  /\ blast' = BuilderCall("sign", <<>>, bresult'.error)
  /\ UNCHANGED <<mdoc, pd, handover, useMac, devicePrivateKey, alg, macAlg,
                 ephemeralPublicKey>>

BuilderNext ==
  \/ DeviceResponse_from
  \/ usingPresentationDefinition
  \/ usingHandover
  \/ authenticateWithSignature
  \/ authenticateWithMAC
  \/ sign

-----------------------------------------------------------------------------
(* Key layer: PEM import, generateSecret, generateKeyPair *)

RsaAlgs == {"PS256", "PS384", "PS512", "RS256", "RS384", "RS512",
            "RSA-OAEP", "RSA-OAEP-256", "RSA-OAEP-384", "RSA-OAEP-512"}
EcdsaAlgs == {"ES256", "ES384", "ES512"}
EcdhAlgs == {"ECDH-ES", "ECDH-ES+A128KW", "ECDH-ES+A192KW", "ECDH-ES+A256KW"}
HmacAlgs == {"HS256", "HS384", "HS512"}
CbcHmacAlgs == {"A128CBC-HS256", "A192CBC-HS384", "A256CBC-HS512"}
AesKwAlgs == {"A128KW", "A192KW", "A256KW"}
AesGcmAlgs == {"A128GCMKW", "A192GCMKW", "A256GCMKW", "A128GCM", "A192GCM", "A256GCM"}
UnsupportedAlg == "none"

KeyPairAlgs == RsaAlgs \cup EcdsaAlgs \cup EcdhAlgs \cup {"EdDSA", "HS256", UnsupportedAlg}
SecretAlgs == HmacAlgs \cup CbcHmacAlgs \cup AesKwAlgs \cup AesGcmAlgs
              \cup {"ES256", UnsupportedAlg}

\* The extractable option as the caller passes it.
Extractables == {"undefined", "true", "false"}

orFalse_True(extractable) == TRUE

\* extractable ?? false
orFalse(extractable) == extractable = "true"

\* getModulusLengthOption: keys below this many bits are refused.
MinModulusLength == 2048

\* A JS value passed as modulusLength: its typeof, whether it is NaN, its
\* magnitude when it is an ordinary number.
JsValue(typeof, isNaN, value) == [typeof |-> typeof, isNaN |-> isNaN, value |-> value]
Undefined == JsValue("undefined", FALSE, 0)
Number(value) == JsValue("number", FALSE, value)

ModulusLengths ==
  {Undefined, JsValue("string", FALSE, 2 * MinModulusLength), JsValue("number", TRUE, 0)}
  \cup {Number(v) : v \in {MinModulusLength \div 2, MinModulusLength - 1,
                           MinModulusLength, 2 * MinModulusLength}}

\* The crv option of generateKeyPair; for an import, the curve OID in the key data.
Curves == {"undefined", "P-256", "Ed25519", "bogus"}

KeyCall(op, alg_, extractable, modulusLength, crv, pemOk) ==
  [op |-> op, alg |-> alg_, extractable |-> extractable,
   modulusLength |-> modulusLength, crv |-> crv, pemOk |-> pemOk]

NoKeyCall == KeyCall("none", UnsupportedAlg, "undefined", Undefined, "undefined", TRUE)

\* A call of crypto.subtle or crypto.
SubtleCall(fn, extractable, modulusLength) ==
  [fn |-> fn, extractable |-> extractable, modulusLength |-> modulusLength]

KPending == [kind |-> "pending", extractable |-> FALSE, error |-> "none"]
KThrow(error) == [kind |-> "threw", extractable |-> FALSE, error |-> error]
KKey(kind, extractable) == [kind |-> kind, extractable |-> extractable, error |-> "none"]

\* What the switch over alg leaves behind: an error thrown before any call of
\* crypto, or the modulusLength of the algorithm (Undefined when it has none).
Prepared(error, modulusLength) == [error |-> error, modulusLength |-> modulusLength]

\* getNamedCurve(keyData)
getNamedCurve(crv) ==
  IF crv \in {"undefined", "bogus"}
  THEN "Invalid or unsupported EC Key Curve or OKP Key Sub Type" ELSE "none"

genericImportPrepare(input) ==
  IF ~input.pemOk THEN Prepared("InvalidCharacterError", Undefined)
  ELSE IF input.alg \in RsaAlgs \cup EcdsaAlgs THEN Prepared("none", Undefined)
  ELSE IF input.alg \in EcdhAlgs \cup {"EdDSA"}
  THEN Prepared(getNamedCurve(input.crv), Undefined)
  ELSE Prepared("Invalid or unsupported \"alg\" (Algorithm) value", Undefined)

\* One operation that ends in a call of crypto.subtle: the host resolves with
\* a key of the requested extractability, or rejects.
Subtle(fn, prepared, extractable, kind) ==
  IF prepared.error # "none"
  THEN /\ kcalls' = <<>>
       /\ kresult' = KThrow(prepared.error)
  ELSE /\ kcalls' = <<SubtleCall(fn, orFalse(extractable), prepared.modulusLength)>>
       /\ \E resolves \in BOOLEAN :
            kresult' = IF resolves THEN KKey(kind, orFalse(extractable))
                       ELSE KThrow("CapabilityRejected")

\* The characters of an alg value.
AlgChars(alg_) ==
  CASE alg_ = "PS256" -> <<"P", "S", "2", "5", "6">>
    [] alg_ = "PS384" -> <<"P", "S", "3", "8", "4">>
    [] alg_ = "PS512" -> <<"P", "S", "5", "1", "2">>
    [] alg_ = "RS256" -> <<"R", "S", "2", "5", "6">>
    [] alg_ = "RS384" -> <<"R", "S", "3", "8", "4">>
    [] alg_ = "RS512" -> <<"R", "S", "5", "1", "2">>
    [] alg_ = "RSA-OAEP" -> <<"R", "S", "A", "-", "O", "A", "E", "P">>
    [] alg_ = "RSA-OAEP-256" -> <<"R", "S", "A", "-", "O", "A", "E", "P", "-", "2", "5", "6">>
    [] alg_ = "RSA-OAEP-384" -> <<"R", "S", "A", "-", "O", "A", "E", "P", "-", "3", "8", "4">>
    [] alg_ = "RSA-OAEP-512" -> <<"R", "S", "A", "-", "O", "A", "E", "P", "-", "5", "1", "2">>
    [] alg_ = "HS256" -> <<"H", "S", "2", "5", "6">>
    [] alg_ = "HS384" -> <<"H", "S", "3", "8", "4">>
    [] alg_ = "HS512" -> <<"H", "S", "5", "1", "2">>
    [] alg_ = "A128KW" -> <<"A", "1", "2", "8", "K", "W">>
    [] alg_ = "A192KW" -> <<"A", "1", "9", "2", "K", "W">>
    [] alg_ = "A256KW" -> <<"A", "2", "5", "6", "K", "W">>
    [] alg_ = "A128GCMKW" -> <<"A", "1", "2", "8", "G", "C", "M", "K", "W">>
    [] alg_ = "A192GCMKW" -> <<"A", "1", "9", "2", "G", "C", "M", "K", "W">>
    [] alg_ = "A256GCMKW" -> <<"A", "2", "5", "6", "G", "C", "M", "K", "W">>
    [] alg_ = "A128GCM" -> <<"A", "1", "2", "8", "G", "C", "M">>
    [] alg_ = "A192GCM" -> <<"A", "1", "9", "2", "G", "C", "M">>
    [] alg_ = "A256GCM" -> <<"A", "2", "5", "6", "G", "C", "M">>
    [] OTHER -> <<>>

\* String.prototype.slice(start, end) on the characters, 0-based, end
\* exclusive; a negative start counts from the end.
slice(chars, start, end) ==
  LET from == IF start < 0 THEN Len(chars) + start ELSE start
  IN SubSeq(chars, (IF from < 0 THEN 0 ELSE from) + 1,
            IF end > Len(chars) THEN Len(chars) ELSE end)

sliceEnd_TwoChars(chars) == SubSeq(chars, Len(chars) - 1, Len(chars))

\* alg.slice(-3)
sliceEnd(chars) == slice(chars, -3, Len(chars))

DigitValue == [c \in {"0", "1", "2", "3", "4", "5", "6", "7", "8", "9"} |->
                 CASE c = "0" -> 0 [] c = "1" -> 1 [] c = "2" -> 2 [] c = "3" -> 3
                   [] c = "4" -> 4 [] c = "5" -> 5 [] c = "6" -> 6 [] c = "7" -> 7
                   [] c = "8" -> 8 [] c = "9" -> 9]

\* NaN, among the results of parseInt.
NaN == 0 - 1

\* parseInt(chars, 10): the number its leading digits spell, NaN without one.
RECURSIVE parseDigits(_, _)
parseDigits(chars, acc) ==
  IF chars = <<>> \/ Head(chars) \notin DOMAIN DigitValue THEN acc
  ELSE parseDigits(Tail(chars), 10 * acc + DigitValue[Head(chars)])

parseInt(chars) ==
  IF chars = <<>> \/ Head(chars) \notin DOMAIN DigitValue THEN NaN
  ELSE parseDigits(chars, 0)

\* The template literal `${chars}`.
RECURSIVE Text(_)
Text(chars) == IF chars = <<>> THEN "" ELSE Head(chars) \o Text(Tail(chars))

\* The algorithm parameter of crypto.subtle: absent members are "" and 0.
Algorithm(name, hash, namedCurve, length) ==
  [name |-> name, hash |-> hash, namedCurve |-> namedCurve, length |-> length]

NoAlgorithm == Algorithm("", "", "", 0)

\* `SHA-${parseInt(alg.slice(-3), 10) || 1}`
OaepHash(alg_) ==
  LET n == parseInt(sliceEnd(AlgChars(alg_)))
  IN "SHA-" \o ToString(IF n = NaN \/ n = 0 THEN 1 ELSE n)

\* The cases PS, RS, RSA-OAEP and ES, which import and generation share.
RsaOrEcdsaAlgorithm(alg_) ==
  IF alg_ \in {"PS256", "PS384", "PS512"}
  THEN Algorithm("RSA-PSS", "SHA-" \o Text(sliceEnd(AlgChars(alg_))), "", 0)
  ELSE IF alg_ \in {"RS256", "RS384", "RS512"}
  THEN Algorithm("RSASSA-PKCS1-v1_5", "SHA-" \o Text(sliceEnd(AlgChars(alg_))), "", 0)
  ELSE IF alg_ \in {"RSA-OAEP", "RSA-OAEP-256", "RSA-OAEP-384", "RSA-OAEP-512"}
  THEN Algorithm("RSA-OAEP", OaepHash(alg_), "", 0)
  ELSE IF alg_ = "ES256" THEN Algorithm("ECDSA", "", "P-256", 0)
  ELSE IF alg_ = "ES384" THEN Algorithm("ECDSA", "", "P-384", 0)
  ELSE Algorithm("ECDSA", "", "P-521", 0)

\* namedCurve.startsWith('P-') ? { name: 'ECDH', namedCurve } : { name: namedCurve }
EcdhAlgorithm(namedCurve) ==
  IF namedCurve \in {"P-256", "P-384", "P-521"}
  THEN Algorithm("ECDH", "", namedCurve, 0) ELSE Algorithm(namedCurve, "", "", 0)

genericImportAlgorithm(input) ==
  IF input.alg \in RsaAlgs \cup EcdsaAlgs THEN RsaOrEcdsaAlgorithm(input.alg)
  ELSE IF input.alg \in EcdhAlgs THEN EcdhAlgorithm(input.crv)
  ELSE Algorithm(input.crv, "", "", 0)

generateSecretAlgorithm(alg_) ==
  IF alg_ \in HmacAlgs
  THEN Algorithm("HMAC", "SHA-" \o ToString(parseInt(sliceEnd(AlgChars(alg_)))), "",
                 parseInt(sliceEnd(AlgChars(alg_))))
  ELSE IF alg_ \in AesKwAlgs
  THEN Algorithm("AES-KW", "", "", parseInt(slice(AlgChars(alg_), 1, 4)))
  ELSE Algorithm("AES-GCM", "", "", parseInt(slice(AlgChars(alg_), 1, 4)))

generateKeyPairAlgorithm(input) ==
  IF input.alg \in RsaAlgs \cup EcdsaAlgs THEN RsaOrEcdsaAlgorithm(input.alg)
  ELSE IF input.alg = "EdDSA"
  THEN Algorithm(IF input.crv = "undefined" THEN "Ed25519" ELSE input.crv, "", "", 0)
  ELSE EcdhAlgorithm(IF input.crv = "undefined" THEN "P-256" ELSE input.crv)

\* The algorithm crypto.subtle was called with, if it was called.
Handed(algorithm) ==
  kalgorithm' = IF kcalls' # <<>> /\ kcalls'[1].fn # "crypto.getRandomValues"
                THEN algorithm ELSE NoAlgorithm

\* The tail of genericImport: crypto.subtle.importKey(keyFormat, keyData,
\* algorithm, extractable ?? false, keyUsages).
genericImport(input) ==
  Subtle("subtle.importKey", genericImportPrepare(input), input.extractable, "CryptoKey")

fromPKCS8 ==
  /\ kin = NoKeyCall
  /\ UNCHANGED <<jarmVars, verifierVars, builderVars, asn1Vars>>
  /\ \E alg_ \in KeyPairAlgs, extractable \in Extractables, crv \in Curves,
        pemOk \in BOOLEAN :
       /\ kin' = KeyCall("fromPKCS8", alg_, extractable, Undefined, crv, pemOk)
       /\ genericImport(kin')
       /\ Handed(genericImportAlgorithm(kin'))

fromSPKI ==
  /\ kin = NoKeyCall
  /\ UNCHANGED <<jarmVars, verifierVars, builderVars, asn1Vars>>
  /\ \E alg_ \in KeyPairAlgs, extractable \in Extractables, crv \in Curves,
        pemOk \in BOOLEAN :
       /\ kin' = KeyCall("fromSPKI", alg_, extractable, Undefined, crv, pemOk)
       /\ genericImport(kin')
       /\ Handed(genericImportAlgorithm(kin'))

\* getSPKI fails on a certificate it cannot parse; else fromSPKI.
fromX509 ==
  /\ kin = NoKeyCall
  /\ UNCHANGED <<jarmVars, verifierVars, builderVars, asn1Vars>>
  /\ \E alg_ \in KeyPairAlgs, extractable \in Extractables, crv \in Curves,
        pemOk \in BOOLEAN :
       /\ kin' = KeyCall("fromX509", alg_, extractable, Undefined, crv, pemOk)
       /\ IF ~pemOk
          THEN /\ kcalls' = <<>>
               /\ kresult' = KThrow("Failed to parse the X.509 certificate")
          ELSE genericImport(kin')
       /\ Handed(genericImportAlgorithm(kin'))

generateSecret ==
  /\ kin = NoKeyCall
  /\ UNCHANGED <<jarmVars, verifierVars, builderVars, asn1Vars>>
  /\ \E alg_ \in SecretAlgs, extractable \in Extractables :
       /\ kin' = KeyCall("generateSecret", alg_, extractable, Undefined, "undefined", TRUE)
       /\ IF alg_ \in CbcHmacAlgs
          THEN /\ kcalls' = <<SubtleCall("crypto.getRandomValues", FALSE, Undefined)>>
               /\ kresult' = KKey("Uint8Array", TRUE)
          ELSE Subtle("subtle.generateKey",
                      IF alg_ \notin HmacAlgs \cup AesKwAlgs \cup AesGcmAlgs
                      THEN Prepared("Invalid or unsupported JWK \"alg\" (Algorithm) Parameter value",
                                    Undefined)
                      ELSE Prepared("none", Undefined),
                      extractable, "CryptoKey")
       /\ Handed(generateSecretAlgorithm(alg_))

getModulusLengthOption_NoCheck(options) ==
  Prepared("none", IF options.modulusLength.typeof = "undefined"
                   THEN Number(MinModulusLength) ELSE options.modulusLength)

getModulusLengthOption(options) ==
  LET modulusLength == IF options.modulusLength.typeof = "undefined"
                       THEN Number(MinModulusLength) ELSE options.modulusLength
  IN IF \/ modulusLength.typeof # "number"
        \/ (~modulusLength.isNaN /\ modulusLength.value < MinModulusLength)
     THEN Prepared("Invalid or unsupported modulusLength option provided, 2048 bits or larger keys must be used",
                   Undefined)
     ELSE Prepared("none", modulusLength)

generateKeyPairPrepare(input) ==
  IF input.alg \in RsaAlgs THEN getModulusLengthOption(input)
  ELSE IF input.alg \in EcdsaAlgs THEN Prepared("none", Undefined)
  ELSE IF input.alg = "EdDSA"
  THEN IF input.crv \in {"undefined", "Ed25519"} THEN Prepared("none", Undefined)
       ELSE Prepared("Invalid or unsupported crv option provided", Undefined)
  ELSE IF input.alg \in EcdhAlgs
  THEN IF input.crv \in {"undefined", "P-256"} THEN Prepared("none", Undefined)
       ELSE Prepared("Invalid or unsupported crv option provided, supported values are P-256, P-384, P-521, X25519, and X448",
                     Undefined)
  ELSE Prepared("Invalid or unsupported JWK \"alg\" (Algorithm) Parameter value", Undefined)

generateKeyPair ==
  /\ kin = NoKeyCall
  /\ UNCHANGED <<jarmVars, verifierVars, builderVars, asn1Vars>>
  /\ \E alg_ \in KeyPairAlgs, extractable \in Extractables,
        modulusLength \in ModulusLengths, crv \in Curves :
       /\ kin' = KeyCall("generateKeyPair", alg_, extractable, modulusLength, crv, TRUE)
       /\ Subtle("subtle.generateKey", generateKeyPairPrepare(kin'), extractable,
                 "CryptoKeyPair")
       /\ Handed(generateKeyPairAlgorithm(kin'))

\* A key handed to an export: whether it is a CryptoKey at all, and its
\* extractable and type attributes.
ExportKeys == [isCryptoKey : BOOLEAN, extractable : BOOLEAN,
               type : {"public", "private", "secret"}]

ExportCall(op, key) ==
  [op |-> op, alg |-> UnsupportedAlg, extractable |-> "undefined",
   modulusLength |-> Undefined, crv |-> "undefined", pemOk |-> TRUE, key |-> key]

\* The PEM text formatPEM returns, by its label.
KPem(label) == [kind |-> "PEM", extractable |-> TRUE, error |-> label]

genericExport(keyType, keyFormat, key) ==
  IF ~key.isCryptoKey
  THEN /\ kcalls' = <<>>
       /\ kresult' = KThrow("invalidKeyInput")
  ELSE IF ~key.extractable
  THEN /\ kcalls' = <<>>
       /\ kresult' = KThrow("CryptoKey is not extractable")
  ELSE IF key.type # keyType
  THEN /\ kcalls' = <<>>
       /\ kresult' = KThrow("key is not a " \o keyType \o " key")
  ELSE /\ kcalls' = <<SubtleCall("subtle.exportKey " \o keyFormat, TRUE, Undefined)>>
       /\ \E resolves \in BOOLEAN :
            kresult' = IF resolves
                       THEN KPem(IF keyType = "public" THEN "PUBLIC KEY" ELSE "PRIVATE KEY")
                       ELSE KThrow("CapabilityRejected")

toSPKI ==
  /\ kin = NoKeyCall
  /\ UNCHANGED <<jarmVars, verifierVars, builderVars, asn1Vars>>
  /\ \E key \in ExportKeys :
       /\ kin' = ExportCall("toSPKI", key)
       /\ genericExport("public", "spki", key)
  /\ kalgorithm' = NoAlgorithm

toPKCS8 ==
  /\ kin = NoKeyCall
  /\ UNCHANGED <<jarmVars, verifierVars, builderVars, asn1Vars>>
  /\ \E key \in ExportKeys :
       /\ kin' = ExportCall("toPKCS8", key)
       /\ genericExport("public", "pkcs8", key)
  /\ kalgorithm' = NoAlgorithm

KeysNext ==
  \/ toSPKI
  \/ toPKCS8
  \/ fromPKCS8
  \/ fromSPKI
  \/ fromX509
  \/ generateSecret
  \/ generateKeyPair

-----------------------------------------------------------------------------
(* ASN.1 walk of the PEM import: parseElement, getElement, spkiFromX509 *)

MaxBytes == 4      \* length of the byte sequences handed to getElement

\* 0x00, 0x01, 0x02, 0x1f (a tag that continues), 0x80, 0x81, 0x82.
ByteValues == {0, 1, 2, 31, 128, 129, 130}

RECURSIVE SeqsUpTo(_, _)
SeqsUpTo(S, n) ==
  IF n = 0 THEN {<<>>}
  ELSE SeqsUpTo(S, n - 1) \cup {Append(q, x) : q \in {r \in SeqsUpTo(S, n - 1) : Len(r) = n - 1}, x \in S}

\* What reading past the end of a Uint8Array gives.
undefined == NaN - 1

\* bytes[position], 0-based.
At(bytes, position) ==
  IF position # NaN /\ position >= 0 /\ position < Len(bytes)
  THEN bytes[position + 1] ELSE undefined

\* value & mask for the masks 0x1f and 0x7f; undefined & mask is 0.
BitAnd(value, mask) == IF value = undefined THEN 0 ELSE value % (mask + 1)

\* a + b of JS numbers, where b may be undefined.
Plus(a, b) == IF a = NaN \/ b = NaN \/ b = undefined THEN NaN ELSE a + b

\* bytes.subarray(begin, end): both ends are clamped to the array, NaN is 0.
subarray(bytes, begin, end) ==
  LET clamp(x) == IF x = NaN \/ x < 0 THEN 0 ELSE IF x > Len(bytes) THEN Len(bytes) ELSE x
  IN SubSeq(bytes, clamp(begin) + 1, clamp(end))

\* The value parseElement returns.
Element(bytes, position, byteLength) ==
  [error |-> "none", byteLength |-> byteLength,
   contents |-> subarray(bytes, position, byteLength),
   raw |-> subarray(bytes, 0, byteLength)]

ElementError(error) == [error |-> error, byteLength |-> NaN, contents |-> <<>>, raw |-> <<>>]

\* while (bytes[position] >= 0x80) position++: the position it ends at.
RECURSIVE tagLoop(_, _)
tagLoop(bytes, position) ==
  IF At(bytes, position) >= 128 THEN tagLoop(bytes, position + 1) ELSE position

\* The position after the tag.
afterTag(bytes) ==
  IF BitAnd(At(bytes, 0), 31) = 31 THEN tagLoop(bytes, 1) + 1 ELSE 1

\* for (i = 0; i < numberOfDigits; i++) length = length * 256 + bytes[position++]
RECURSIVE digitsLoop(_, _, _, _, _)
digitsLoop(bytes, position, i, digits, length) ==
  IF i < digits
  THEN digitsLoop(bytes, position + 1, i + 1, digits,
                  Plus(IF length = NaN THEN NaN ELSE length * 256, At(bytes, position)))
  ELSE [position |-> position, length |-> length]

\* The branch for the indefinite form: up to the first 00 00.
RECURSIVE indefiniteForm(_, _, _)
indefiniteForm(bytes, position, length) ==
  IF At(bytes, position + length) # 0 \/ At(bytes, position + length + 1) # 0
  THEN IF length > Len(bytes) THEN ElementError("invalid indefinite form length")
       ELSE indefiniteForm(bytes, position, length + 1)
  ELSE [error |-> "none", byteLength |-> position + length + 2,
        contents |-> subarray(bytes, position, position + length),
        raw |-> subarray(bytes, 0, position + length + 2)]

\* The length part of parseElement, from the position after the tag. `length`
\* is the local variable, 0 when the branches are chosen.
parseLength(bytes, position, length) ==
  IF At(bytes, position) # undefined /\ At(bytes, position) < 128
  THEN Element(bytes, position + 1, position + 1 + At(bytes, position))
  ELSE IF length = 128
  THEN indefiniteForm(bytes, position, 0)
  ELSE LET after == digitsLoop(bytes, position + 1, 0,
                               BitAnd(At(bytes, position), 127), 0)
       IN Element(bytes, after.position, Plus(after.position, after.length))

parseElement(bytes) == parseLength(bytes, afterTag(bytes), 0)

\* getElement: the elements from `next` on.
RECURSIVE getElementFrom(_, _)
getElementFrom(seq, next) ==
  IF next # NaN /\ next < Len(seq)
  THEN LET nextPart == parseElement(subarray(seq, next, Len(seq)))
       IN <<nextPart>> \o getElementFrom(seq, Plus(next, nextPart.byteLength))
  ELSE <<>>

getElement(seq) == getElementFrom(seq, 0)

\* subarray(next) of the sequence getElement walks: the bytes parseElement sees.
Rest == subarray(aseq, anext, Len(aseq))

\* getElement(seq): next = 0, result = [].
getElement_call ==
  /\ apc = "idle"
  /\ UNCHANGED <<jarmVars, verifierVars, builderVars, keyVars>>
  /\ \E seq \in SeqsUpTo(ByteValues, MaxBytes) :
       /\ aseq' = seq
       /\ anext' = 0
       /\ aelements' = <<>>
       /\ apc' = "while"
       /\ UNCHANGED <<aposition, alength, numberOfDigits, ai, aresult>>

\* while (next < seq.length): parseElement is entered, reads the first tag
\* byte and moves past it; otherwise getElement returns.
getElement_while ==
  /\ apc = "while"
  /\ UNCHANGED <<jarmVars, verifierVars, builderVars, keyVars>>
  /\ IF anext # NaN /\ anext < Len(aseq)
     THEN /\ aposition' = 1
          /\ alength' = 0
          /\ apc' = IF BitAnd(At(Rest, 0), 31) = 31 THEN "tag" ELSE "length"
     ELSE /\ apc' = "returned"
          /\ UNCHANGED <<aposition, alength>>
  /\ UNCHANGED <<aseq, anext, aelements, numberOfDigits, ai, aresult>>

\* One test of while (bytes[position] >= 0x80) and the byte after the loop.
parseElement_tag ==
  /\ apc = "tag"
  /\ UNCHANGED <<jarmVars, verifierVars, builderVars, keyVars>>
  /\ aposition' = aposition + 1
  /\ apc' = IF At(Rest, aposition) >= 128 THEN "tag" ELSE "length"
  /\ UNCHANGED <<aseq, anext, aelements, alength, numberOfDigits, ai, aresult>>

\* The choice of the length form.
parseElement_length ==
  /\ apc = "length"
  /\ UNCHANGED <<jarmVars, verifierVars, builderVars, keyVars>>
  /\ IF At(Rest, aposition) # undefined /\ At(Rest, aposition) < 128
     THEN /\ alength' = At(Rest, aposition)
          /\ aposition' = aposition + 1
          /\ apc' = "push"
          /\ UNCHANGED <<numberOfDigits, ai, aelements, anext>>
     ELSE IF alength = 128
     THEN /\ aelements' = Append(aelements, indefiniteForm(Rest, aposition, 0))
          /\ anext' = Plus(anext, indefiniteForm(Rest, aposition, 0).byteLength)
          /\ apc' = "while"
          /\ UNCHANGED <<numberOfDigits, ai, alength, aposition>>
     ELSE /\ numberOfDigits' = BitAnd(At(Rest, aposition), 127)
          /\ aposition' = aposition + 1
          /\ alength' = 0
          /\ ai' = 0
          /\ apc' = "digits"
          /\ UNCHANGED <<aelements, anext>>
  /\ UNCHANGED <<aseq, aresult>>

\* One test of i < numberOfDigits and one round of the loop.
parseElement_digits ==
  /\ apc = "digits"
  /\ UNCHANGED <<jarmVars, verifierVars, builderVars, keyVars>>
  /\ IF ai < numberOfDigits
     THEN /\ alength' = Plus(IF alength = NaN THEN NaN ELSE alength * 256, At(Rest, aposition))
          /\ aposition' = aposition + 1
          /\ ai' = ai + 1
          /\ apc' = "digits"
     ELSE /\ apc' = "push"
          /\ UNCHANGED <<alength, aposition, ai>>
  /\ UNCHANGED <<aseq, anext, aelements, numberOfDigits, aresult>>

\* The push without the step forward.
getElement_push_NoAdvance ==
  /\ apc = "push"
  /\ UNCHANGED <<jarmVars, verifierVars, builderVars, keyVars>>
  /\ aelements' = Append(aelements, Element(Rest, aposition, Plus(aposition, alength)))
  /\ apc' = "while"
  /\ UNCHANGED <<aseq, anext, aposition, alength, numberOfDigits, ai, aresult>>

\* parseElement returns; result.push(nextPart); next += nextPart.byteLength.
getElement_push ==
  /\ apc = "push"
  /\ UNCHANGED <<jarmVars, verifierVars, builderVars, keyVars>>
  /\ LET nextPart == Element(Rest, aposition, Plus(aposition, alength))
     IN /\ aelements' = Append(aelements, nextPart)
        /\ anext' = Plus(anext, nextPart.byteLength)
  /\ apc' = "while"
  /\ UNCHANGED <<aseq, aposition, alength, numberOfDigits, ai, aresult>>

APending == [kind |-> "pending"]

\* The base64 alphabet.
Base64Chars ==
  <<"A", "B", "C", "D", "E", "F", "G", "H", "I", "J", "K", "L", "M", "N", "O", "P",
    "Q", "R", "S", "T", "U", "V", "W", "X", "Y", "Z", "a", "b", "c", "d", "e", "f",
    "g", "h", "i", "j", "k", "l", "m", "n", "o", "p", "q", "r", "s", "t", "u", "v",
    "w", "x", "y", "z", "0", "1", "2", "3", "4", "5", "6", "7", "8", "9", "+", "/">>

Base64Char(n) == Base64Chars[n + 1]

Base64Value(c) == (CHOOSE n \in 1..64 : Base64Chars[n] = c) - 1

\* uint8ArrayToBase64: three bytes give four characters, a rest of one or two
\* bytes is padded with "=".
uint8ArrayToBase64(bytes) ==
  [k \in 1..(4 * ((Len(bytes) + 2) \div 3)) |->
     LET group == (k - 1) \div 4
         byte(j) == IF 3 * group + j <= Len(bytes) THEN bytes[3 * group + j] ELSE 0
         present(j) == 3 * group + j <= Len(bytes)
     IN CASE (k - 1) % 4 = 0 -> Base64Char(byte(1) \div 4)
          [] (k - 1) % 4 = 1 -> Base64Char((byte(1) % 4) * 16 + byte(2) \div 16)
          [] (k - 1) % 4 = 2 -> IF present(2) THEN Base64Char((byte(2) % 16) * 4 + byte(3) \div 64)
                                ELSE "="
          [] OTHER -> IF present(3) THEN Base64Char(byte(3) % 64) ELSE "="]

\* atob / base64ToUint8Array: four characters give three bytes, less one for
\* every "=" at the end.
atob(chars) ==
  LET padding == Cardinality({k \in 1..Len(chars) : chars[k] = "="})
      value(k) == IF chars[k] = "=" THEN 0 ELSE Base64Value(chars[k])
  IN [k \in 1..((Len(chars) \div 4) * 3 - padding) |->
        LET group == (k - 1) \div 3
        IN CASE (k - 1) % 3 = 0 -> value(4 * group + 1) * 4 + value(4 * group + 2) \div 16
             [] (k - 1) % 3 = 1 -> (value(4 * group + 2) % 16) * 16 + value(4 * group + 3) \div 4
             [] OTHER -> (value(4 * group + 3) % 4) * 64 + value(4 * group + 4)]

base64ToUint8Array(chars) == atob(chars)

PemBegin(label) == "-----BEGIN " \o label \o "-----"
PemEnd(label) == "-----END " \o label \o "-----"

\* b64.match(/(.{1,64})/g).join('\n')
RECURSIVE Lines64(_)
Lines64(chars) ==
  IF Len(chars) <= 64 THEN chars
  ELSE SubSeq(chars, 1, 64) \o <<"\n">> \o Lines64(SubSeq(chars, 65, Len(chars)))

\* formatPEM(b64, label): the header line, the base64 text in lines of 64
\* characters, the footer line.
formatPEM(b64, label) ==
  <<PemBegin(label), "\n">> \o Lines64(b64) \o <<"\n", PemEnd(label)>>

\* pem.replace(/(?:-----(?:BEGIN|END) <label>-----|\s)/g, '')
replace(pem, label) ==
  SelectSeq(pem, LAMBDA c : c \notin {PemBegin(label), PemEnd(label), "\n"})

\* What spkiFromX509 gives: the base64 text, or the TypeError of reading a
\* property of undefined.
Spki(b64) == [error |-> "none", b64 |-> b64]
TypeError == [error |-> "TypeError", b64 |-> <<>>]

\* Always the element at index 5.
spkiFromX509_Index5(buf) ==
  LET outer == getElement(parseElement(buf).contents)
  IN IF outer = <<>> THEN TypeError
     ELSE LET tbsCertificate == getElement(outer[1].contents)
          IN IF Len(tbsCertificate) < 6 THEN TypeError
             ELSE Spki(uint8ArrayToBase64(tbsCertificate[6].raw))

spkiFromX509(buf) ==
  LET outer == getElement(parseElement(buf).contents)
  IN IF outer = <<>> THEN TypeError
     ELSE LET element == outer[1]
              tbsCertificate == getElement(element.contents)
          IN IF tbsCertificate = <<>> THEN TypeError
             ELSE LET index == IF At(tbsCertificate[1].raw, 0) = 160 THEN 6 ELSE 5
                  IN IF index >= Len(tbsCertificate) THEN TypeError
                     ELSE Spki(uint8ArrayToBase64(tbsCertificate[index + 1].raw))

\* getSPKI(x509): the PEM text of the SPKI, or the error.
getSPKI(x509) ==
  LET pem == replace(x509, "CERTIFICATE")
      raw == base64ToUint8Array(pem)
      spki == spkiFromX509(raw)
  IN IF spki.error # "none" THEN [error |-> spki.error, pem |-> <<>>]
     ELSE [error |-> "none", pem |-> formatPEM(spki.b64, "PUBLIC KEY")]

\* DER of one element: the tag byte, the length in the short form below 128
\* and in the long form with one length byte from there, the contents.
Der(tag, contents) ==
  <<tag>> \o (IF Len(contents) < 128 THEN <<Len(contents)>> ELSE <<129, Len(contents)>>) \o contents

RECURSIVE Concat(_)
Concat(seqs) == IF seqs = <<>> THEN <<>> ELSE Head(seqs) \o Concat(Tail(seqs))

Repeat(byte, n) == [k \in 1..n |-> byte]

\* SubjectPublicKeyInfo contents of the certificates: short ones, and one that
\* needs the long length form and more than one line of base64.
SpkiContents == {<<7>>, <<7, 8>>, <<0, 255, 160>>, Repeat(9, 130)}

\* The elements of a tbsCertificate, each as its DER: the explicit [0]
\* version when the certificate has one, serialNumber, signature, issuer,
\* validity, subject, subjectPublicKeyInfo, and extensions [3] when it has
\* them; `cut` elements are missing at the end.
TbsElements(version, key, extensions, cut) ==
  LET all == (IF version THEN <<Der(160, Der(2, <<2>>))>> ELSE <<>>)
             \o <<Der(2, <<1>>), Der(48, <<11>>), Der(48, <<12>>), Der(48, <<13>>),
                  Der(48, <<14>>), Der(48, key)>>
             \o (IF extensions THEN <<Der(163, Der(48, <<15>>))>> ELSE <<>>)
  IN SubSeq(all, 1, Len(all) - cut)

CertificateShapes ==
  [version : BOOLEAN, key : SpkiContents, extensions : BOOLEAN, cut : 0..2]

ShapeElements(c) == TbsElements(c.version, c.key, c.extensions, c.cut)

\* Certificate ::= SEQUENCE { tbsCertificate, signatureAlgorithm, signature }
CertificateDer(c) ==
  Der(48, Der(48, Concat(ShapeElements(c))) \o Der(48, <<11>>) \o Der(3, <<0, 16>>))

CertificatePem(c) == formatPEM(uint8ArrayToBase64(CertificateDer(c)), "CERTIFICATE")

AImported(keyData) == [kind |-> "imported", keyData |-> keyData]
AThrow(error) == [kind |-> "error", error |-> error]

\* fromX509 up to the key data handed on: getSPKI in its try, then fromSPKI's
\* genericImport decoding the PEM text it was given.
fromX509_keyData ==
  /\ apc = "idle"
  /\ UNCHANGED <<jarmVars, verifierVars, builderVars, keyVars>>
  /\ \E c \in CertificateShapes :
       LET spki == getSPKI(CertificatePem(c))
       IN /\ aseq' = CertificateDer(c)
          /\ aresult' = IF spki.error # "none"
                        THEN AThrow("Failed to parse the X.509 certificate")
                        ELSE AImported(atob(replace(spki.pem, "PUBLIC KEY")))
  /\ apc' = "x509"
  /\ UNCHANGED <<anext, aposition, alength, numberOfDigits, ai, aelements>>


\* The steps of a running getElement call.
WalkStep ==
  \/ getElement_while
  \/ parseElement_tag
  \/ parseElement_length
  \/ parseElement_digits
  \/ getElement_push

Asn1Next ==
  \/ getElement_call
  \/ getElement_while
  \/ parseElement_tag
  \/ parseElement_length
  \/ parseElement_digits
  \/ getElement_push
  \/ fromX509_keyData

-----------------------------------------------------------------------------
(* Specifications: one subsystem runs, the other stays idle *)

\* Nothing has been called yet.
Init ==
  /\ jpc = "idle"
  /\ response = NoResponse
  /\ created = [type |-> "none", params |-> EmptyParams]
  /\ responseIsEncrypted = FALSE
  /\ decryptedResponse = NoResponse
  /\ responseIsSigned = FALSE
  /\ authResponseParams = EmptyParams
  /\ authRequestParams = EmptyParams
  /\ jlog = <<>>
  /\ jresult = Pending
  /\ vpc = "idle"
  /\ voptions = NoOptions
  /\ dr = [documents |-> 0]
  /\ docIdx = 0
  /\ vin = NoInput
  /\ pendingNs = {}
  /\ assessments = <<>>
  /\ vcalls = <<>>
  /\ failedSeen = FALSE
  /\ trail = <<>>
  /\ msoDigests = {}
  /\ nsTrail = <<>>
  /\ vresult = VPending
  /\ bpc = "idle"
  /\ mdoc = NoMdoc
  /\ pd = <<>>
  /\ handover = FALSE
  /\ useMac = TRUE
  /\ devicePrivateKey = FALSE
  /\ alg = "undefined"
  /\ macAlg = "undefined"
  /\ ephemeralPublicKey = FALSE
  /\ blast = NoCall
  /\ lastAuth = NoAuth
  /\ bresult = BPending
  /\ kin = NoKeyCall
  /\ kcalls = <<>>
  /\ kresult = KPending
  /\ kalgorithm = NoAlgorithm
  /\ apc = "idle"
  /\ aseq = <<>>
  /\ anext = 0
  /\ aposition = 0
  /\ alength = 0
  /\ numberOfDigits = 0
  /\ ai = 0
  /\ aelements = <<>>
  /\ aresult = APending

SpecJarm == Init /\ [][JarmNext]_vars

SpecVerifier == Init /\ [][VerifierNext]_vars

SpecBuilder == Init /\ [][BuilderNext]_vars

SpecKeys == Init /\ [][KeysNext]_vars

SpecAsn1 == Init /\ [][Asn1Next]_vars

\* getElement runs synchronously: once called, its next step is taken.
SpecAsn1Live == SpecAsn1 /\ WF_vars(WalkStep)

-----------------------------------------------------------------------------
(* Properties of the JARM validation *)

Calls(op) == {i \in 1..Len(jlog) : jlog[i].op = op}
JDone == jpc = "done"
JReturned == jresult.kind = "ok"
JThrew(e) == jresult.kind = "error" /\ jresult.error = e

\* The input alone decides whether decryption hands a plaintext on.
DecryptPasses(r) ==
  ~isJwe(r) \/ (HeaderDecodes(r) /\ HeaderHasKid(r) /\ DecryptSucceeds(r, HeaderKid(r)))
Plaintext(r) == IF isJwe(r) THEN r.body ELSE r

\* The response carries a JWS whose header and payload decode.
CarriesJws(r) ==
  DecryptPasses(r) /\ isJws(Plaintext(r)) /\ HeaderDecodes(Plaintext(r)) /\ JwtDecodes(Plaintext(r))
\* The response is a JWE around a JSON text.
CarriesJson(r) ==
  isJwe(r) /\ DecryptPasses(r) /\ ~isJws(Plaintext(r)) /\ IsJson(Plaintext(r).body)
CarriedParams(r) == JsonParse(Plaintext(r).body)

\* C1 (as stated): on every path where the (decrypted) response is a JWS, a
\* successful jws.verifyJwt precedes the schema parse of the JWS payload and
\* precedes the getParams call made with that payload.
C1_VerifyBeforeParse ==
  \A i \in Calls("parse") \cup Calls("getParams") :
    isJws(jlog[i].arg) =>
      \E j \in Calls("verifyJwt") : j < i /\ jlog[j].ok /\ jlog[j].arg = jlog[i].arg

\* C1 (amended): on every path where the (decrypted) response is a JWS, the
\* payload is parsed against the strict schema and getParams is called with
\* the parsed payload BEFORE jws.verifyJwt is invoked; the signature is
\* verified before the request/response state check and before any result is
\* returned.
C1_ParseThenVerifyBeforeReturn ==
  /\ \A i \in Calls("verifyJwt") :
       \E j \in Calls("parse"), k \in Calls("getParams") :
         /\ j < k /\ k < i
         /\ jlog[j].ok /\ jlog[k].ok
         /\ jlog[j].arg = jlog[i].arg
         /\ jlog[k].params = decodeJwt(jlog[i].arg)
  /\ (responseIsSigned /\ (jpc = "validate" \/ JReturned \/ JThrew("StateMismatch")))
       => \E i \in Calls("verifyJwt") : jlog[i].ok /\ jlog[i].arg = decryptedResponse

\* C1: a signed response is returned after parse, getParams and a successful verifyJwt.
C1_Witness ==
  /\ JReturned /\ responseIsSigned
  /\ \E i \in Calls("verifyJwt") : jlog[i].ok

\* C2: a response that is neither a JWE nor a JWS, well-formed plain JSON
\* included, is rejected with the not-signed-or-encrypted error and none of
\* decryptCompact, verifyJwt, getParams is invoked for it.
C2_PlainRejected ==
  (jpc \notin {"idle"} /\ ~isJwe(response) /\ ~isJws(response)) =>
    /\ Calls("decryptCompact") \cup Calls("verifyJwt") \cup Calls("getParams") = {}
    /\ ~JReturned
    /\ JDone => JThrew("NotSignedOrEncrypted")
    /\ jpc \in {"start", "classify", "done"}

\* C2: a well-formed plain-JSON response that satisfies the strict schema is rejected.
C2_Witness ==
  /\ JDone /\ ~isJwe(response) /\ ~isJws(response)
  /\ IsJson(response.body) /\ ParsesStrict(JsonParse(response.body))
  /\ ~IsErrorParams(JsonParse(response.body))
  /\ JThrew("NotSignedOrEncrypted")

GetParamsReturned == \E i \in Calls("getParams") : jlog[i].ok

\* C3 (as stated): whenever the state of the request parameters returned by
\* getParams differs from the state of the response parameters, the
\* validation fails with the state-mismatch error, for every envelope type.
C3_MismatchAlwaysStateMismatch ==
  (JDone /\ GetParamsReturned /\ StateDiffers(authRequestParams, authResponseParams))
    => JThrew("StateMismatch")

\* C3 (amended): whenever the state of the request parameters returned by
\* getParams differs from the state of the response parameters, the
\* validation fails and returns no result, for every envelope type; the error
\* is the state-mismatch error, except for a JWS whose kid is missing or whose
\* signature does not verify, where that earlier error is raised instead.
C3_MismatchNeverReturns ==
  (JDone /\ GetParamsReturned /\ StateDiffers(authRequestParams, authResponseParams))
    => /\ ~JReturned
       /\ IF responseIsSigned /\ ~HeaderHasKid(decryptedResponse)
          THEN JThrew("JwsMissingKid")
          ELSE IF responseIsSigned
                  /\ ~VerifySucceeds(decryptedResponse, HeaderKid(decryptedResponse))
          THEN JThrew("VerifyFailed")
          ELSE JThrew("StateMismatch")

\* C3: a signed and encrypted response ends in the state-mismatch error, both states present.
C3_Witness ==
  /\ JThrew("StateMismatch") /\ responseIsSigned /\ responseIsEncrypted
  /\ Has(authRequestParams, "state") /\ Has(authResponseParams, "state")

\* C4: if the response parameters (JWS payload or decrypted JSON) match the
\* error-response schema, the received-error-response error is raised before
\* the parameters are parsed against the response schema, before getParams is
\* called, and no result is returned.
C4_ErrorResponseRaisedFirst ==
  ((CarriesJws(response) \/ CarriesJson(response))
     /\ IsErrorParams(CarriedParams(response))
     /\ jpc \notin {"idle", "start", "classify", "signed", "json"})
    => /\ JThrew("ReceivedErrorResponse")
       /\ Calls("parse") \cup Calls("getParams") \cup Calls("verifyJwt") = {}

\* C4: a JWS payload that matches the error schema and the strict schema alike is refused.
C4_Witness ==
  /\ JThrew("ReceivedErrorResponse")
  /\ CarriesJws(response) /\ ParsesStrict(CarriedParams(response))

\* C5: whenever the validation returns, the type is 'signed encrypted' exactly
\* when the response is a JWE whose plaintext is a JWS, 'encrypted' exactly
\* when it is a JWE whose plaintext is not a JWS, and 'signed' exactly when it
\* is not a JWE and is a JWS.
C5_TypeMatchesEnvelope ==
  JReturned =>
    /\ (jresult.type = "signed encrypted") <=> (isJwe(response) /\ isJws(response.body))
    /\ (jresult.type = "encrypted") <=> (isJwe(response) /\ ~isJws(response.body))
    /\ (jresult.type = "signed") <=> (~isJwe(response) /\ isJws(response))

\* C5: a received JWE around a JWS is returned as signed encrypted.
C5_Witness == JReturned /\ jresult.type = "signed encrypted" /\ created.type = "received"

CreatedFresh == created.type \in CreateTypes

JweSeen == jpc \notin {"idle", "start"} /\ isJwe(response) /\ HeaderDecodes(response)
JwsSeen == JDone /\ CarriesJws(response)

\* C7 (as stated): a JWE without a protected-header kid is rejected without
\* decryptCompact being invoked, a JWS without kid is rejected without
\* verifyJwt being invoked, and when the kid is present the capability is
\* invoked exactly once with that kid.
C7_KidPresentInvokedOnce ==
  /\ (JweSeen /\ ~HeaderHasKid(response)) => (Calls("decryptCompact") = {} /\ ~JReturned)
  /\ (JwsSeen /\ ~HeaderHasKid(Plaintext(response))) => (Calls("verifyJwt") = {} /\ ~JReturned)
  /\ (JweSeen /\ HeaderHasKid(response)) =>
       /\ Cardinality(Calls("decryptCompact")) = 1
       /\ \A i \in Calls("decryptCompact") : jlog[i].kid = response.hdr.kid
  /\ (JwsSeen /\ HeaderHasKid(Plaintext(response))) =>
       /\ Cardinality(Calls("verifyJwt")) = 1
       /\ \A i \in Calls("verifyJwt") : jlog[i].kid = Plaintext(response).hdr.kid

\* C7 (amended): a JWE without kid is rejected without decryptCompact being
\* invoked and a JWS without kid is rejected without verifyJwt being invoked;
\* a JWE with kid has decryptCompact invoked exactly once with that kid; a
\* JWS with kid has verifyJwt invoked at most once, always with that kid, and
\* exactly once when its payload passed the schema and getParams returned.
C7_KidOnlyKeyResolution ==
  /\ (JweSeen /\ ~HeaderHasKid(response)) => (Calls("decryptCompact") = {} /\ ~JReturned)
  /\ (JwsSeen /\ ~HeaderHasKid(Plaintext(response))) => (Calls("verifyJwt") = {} /\ ~JReturned)
  /\ (JweSeen /\ HeaderHasKid(response)) =>
       /\ Cardinality(Calls("decryptCompact")) = 1
       /\ \A i \in Calls("decryptCompact") :
            jlog[i].kid = response.hdr.kid /\ jlog[i].arg = response
  /\ (JwsSeen /\ HeaderHasKid(Plaintext(response))) =>
       /\ Cardinality(Calls("verifyJwt")) =
            (IF GetParamsReturned THEN 1 ELSE 0)
       /\ \A i \in Calls("verifyJwt") :
            jlog[i].kid = Plaintext(response).hdr.kid /\ jlog[i].arg = Plaintext(response)
  /\ Cardinality(Calls("decryptCompact")) <= 1
  /\ Cardinality(Calls("verifyJwt")) <= 1

\* C7: a JWE around a JWS, both with kid: each capability was invoked once.
C7_Witness ==
  /\ JDone /\ isJwe(response) /\ CarriesJws(response)
  /\ Cardinality(Calls("decryptCompact")) = 1
  /\ Cardinality(Calls("verifyJwt")) = 1

JwtClaims == {"iss", "aud", "exp"}
MissingClaims(p) == JwtClaims \ DOMAIN p

\* C8: for a signed or signed-and-encrypted response iss, aud and exp are all
\* required in the JWS payload: if any one is absent the validation fails and
\* returns nothing; for an encrypted-only response they are optional and
\* their absence does not fail the validation.
C8_JwtClaimsRequiredWhenSigned ==
  /\ (JDone /\ CarriesJws(response) /\ MissingClaims(CarriedParams(response)) # {})
       => /\ ~JReturned
          /\ ~IsErrorParams(CarriedParams(response)) => JThrew("SchemaInvalid")
  /\ (JDone /\ CarriesJson(response)
        /\ ~IsErrorParams(CarriedParams(response))
        /\ ParsesLoose(CarriedParams(response))
        /\ GetParamsReturned
        /\ ~StateDiffers(authRequestParams, CarriedParams(response)))
       => JReturned

\* C8: an encrypted-only response without iss, aud and exp is returned.
C8_Witness ==
  /\ JReturned /\ jresult.type = "encrypted"
  /\ MissingClaims(jresult.authResponseParams) = JwtClaims

\* C9: whenever a result of type 'signed' or 'signed encrypted' is returned,
\* jws.verifyJwt was invoked on exactly the JWS whose payload supplied the
\* returned authResponseParams and completed without error; if verifyJwt
\* fails, no result is returned.
C9_ReturnedSignedWasVerified ==
  /\ (JReturned /\ jresult.type \in {"signed", "signed encrypted"}) =>
       \E i \in Calls("verifyJwt") :
         /\ jlog[i].ok
         /\ jlog[i].arg = Plaintext(response)
         /\ VerifySucceeds(jlog[i].arg, HeaderKid(jlog[i].arg))
         /\ decodeJwt(jlog[i].arg) = jresult.authResponseParams
  /\ (\E i \in Calls("verifyJwt") : ~jlog[i].ok) => (~JReturned /\ JThrew("VerifyFailed"))

\* C9: a signed response is returned and verifyJwt succeeded on the JWS it came from.
C9_Witness ==
  /\ JReturned /\ jresult.type = "signed"
  /\ \E i \in Calls("verifyJwt") : jlog[i].ok /\ decodeJwt(jlog[i].arg) = jresult.authResponseParams


-----------------------------------------------------------------------------
(* Properties of the Verifier *)

VDone == vpc = "done"
VReturnedResponse == vresult.kind = "returned"
VThrewError(e) == vresult.kind = "threw" /\ vresult.error = e

\* C10 (as stated): for a device response that parses and a callback that does
\* not throw, verify never ends with an error because a check failed: unless a
\* host capability rejected, a finished verify has returned the decoded response.
C10_CheckFailureNeverThrows ==
  VDone => (VReturnedResponse \/ VThrewError("MDLParseError") \/ VThrewError("CapabilityRejected"))

\* C10: the case where it does throw: the response parsed and has a version number,
\* the document has a certificate and an alg, every capability resolved, but the
\* MSO has no validityInfo; verify ends with a TypeError and no assessment tells
\* of the missing validity info.
C10_Witness ==
  /\ VDone
  /\ VThrewError("TypeError")
  /\ trail = <<<<0, "DOCUMENT_FORMAT">>, <<1, "ISSUER_AUTH">>>>
  /\ vin.step = "issuerValidity"
  /\ vin.certificate
  /\ vin.signed = {}
  /\ vin.certificateValidityData # {}
  /\ assessments = <<>>

Called(c) == \E i \in 1..Len(vcalls) : vcalls[i] = c
Delivered(check, status) ==
  \E i \in 1..Len(assessments) :
    assessments[i].check = check /\ assessments[i].status = status
NoTrustAnchor ==
  /\ ~voptions.disableCertificateChainValidation
  /\ Len(voptions.issuersRootCertificates) = 0
AfterChainValidation == vin.step = "issuerChain"

\* C11 (as stated): when chain validation is not disabled and the verifier has
\* no root certificate, the chain validation step ends verify with an error
\* for the caller.
C11_NoTrustAnchorPropagates ==
  (AfterChainValidation /\ NoTrustAnchor) => vresult.kind = "threw"

\* C11 (amended): with chain validation not disabled and no root certificate,
\* the step records exactly one FAILED 'Issuer certificate must be valid'
\* assessment whose reason is 'No root certificate found', does not call
\* x509.validateCertificateChain, and verify goes on to the issuer signature.
C11_NoTrustAnchorIsAssessed ==
  (AfterChainValidation /\ NoTrustAnchor) =>
    /\ assessments = <<Assessment("ISSUER_AUTH", "chain", "FAILED",
                                  "No root certificate found", "", "")>>
    /\ vcalls = <<>>
    /\ vresult = VPending
    /\ vpc = "issuerSignature"

\* C11: a document with certificate and alg reaches chain validation of a
\* verifier constructed without root certificates.
C11_Witness ==
  /\ AfterChainValidation /\ NoTrustAnchor
  /\ vin.certificate /\ vin.algName
  /\ Delivered("chain", "FAILED")

InList(c, l) == \E i \in 1..Len(l) : l[i] = c

\* C12 (as stated): when x509.validateCertificateChain is called, the
\* certificates it is given hold the document's chain (x5chain) together with
\* the verifier's root certificates.
C12_DocumentChainSubmitted ==
  (AfterChainValidation /\ Called("validateCertificateChain")) =>
    /\ \A i \in 1..Len(vin.x5chain) : InList(vin.x5chain[i], vin.certificates)
    /\ \A i \in 1..Len(voptions.issuersRootCertificates) :
         InList(voptions.issuersRootCertificates[i], vin.certificates)

\* C12: the case where it is not: a document whose certificate was issued by
\* somebody else passes 'Issuer certificate must be valid', because only the
\* root certificates were submitted.
C12_Witness ==
  /\ AfterChainValidation /\ Called("validateCertificateChain")
  /\ vin.x5chain = <<"rogue">>
  /\ vin.certificates = <<"iaca">>
  /\ Delivered("chain", "PASSED")

CategoryRank ==
  ("DOCUMENT_FORMAT" :> 0) @@ ("ISSUER_AUTH" :> 1) @@ ("DEVICE_AUTH" :> 2)
  @@ ("DATA_INTEGRITY" :> 3)
\* entry a of the trail may be followed, at any distance, by entry b
Before(a, b) ==
  \/ a[1] < b[1]
  \/ a[1] = b[1] /\ CategoryRank[a[2]] < CategoryRank[b[2]]

\* C13: the assessments of one verify call come in blocks: first every
\* DOCUMENT_FORMAT assessment, then document by document the ISSUER_AUTH block,
\* the DEVICE_AUTH block and the DATA_INTEGRITY block; no block is entered twice,
\* and the assessments of one step all belong to one category.
C13_CategoryAndDocumentOrder ==
  /\ \A i, j \in 1..Len(trail) : i < j => Before(trail[i], trail[j])
  /\ \A i \in 1..Len(trail) :
       (trail[i][2] = "DOCUMENT_FORMAT") <=> (trail[i][1] = 0)
  /\ \A i \in 1..Len(assessments) :
       trail # <<>> /\ assessments[i].category = trail[Len(trail)][2]

\* C13: a call over two documents has returned, each document assessed in all
\* three categories.
C13_Witness ==
  /\ VReturnedResponse
  /\ trail = <<<<0, "DOCUMENT_FORMAT">>,
               <<1, "ISSUER_AUTH">>, <<1, "DEVICE_AUTH">>, <<1, "DATA_INTEGRITY">>,
               <<2, "ISSUER_AUTH">>, <<2, "DEVICE_AUTH">>, <<2, "DATA_INTEGRITY">>>>

NoRepeat(t) == \A i, j \in 1..Len(t) : i # j => t[i] # t[j]
AfterNamespace == vin.step = "namespace" /\ ~vin.rejected
\* the element identifiers of the digest assessments of the last step, in order
RECURSIVE DigestIds(_)
DigestIds(as) ==
  IF as = <<>> THEN <<>>
  ELSE (IF Head(as).check = "digest" THEN <<Head(as).id>> ELSE <<>>) \o DigestIds(Tail(as))

\* C14 (as stated): the DATA_INTEGRITY assessments that name a namespace come
\* namespace by namespace in document order, no namespace being returned to
\* after another one was named, and the digest assessments of one namespace
\* come in the order of its items.
C14_DataIntegrityInDocumentOrder ==
  /\ vin.step = "data" => nsTrail = vin.nameSpaces
  /\ NoRepeat(nsTrail)
  /\ AfterNamespace =>
       DigestIds(assessments) = [i \in 1..Len(vin.items) |-> vin.items[i].elementIdentifier]

\* C14: the case where they do not: the digest assessment of an item of the
\* first namespace is delivered after the second namespace has been named.
C14_Witness ==
  /\ AfterNamespace
  /\ nsTrail = <<OtherNamespace, MDL_NAMESPACE, OtherNamespace>>
  /\ vin.ns = OtherNamespace
  /\ Len(vin.items) = 1
  /\ DigestIds(assessments) = <<vin.items[1].elementIdentifier>>

\* the device authentication of the current document has run to its end
DeviceAuthOver ==
  \/ vin.step = "device" /\ vpc \notin {"deviceSignature", "deviceMac"}
  \/ vin.step \in {"deviceSignature", "deviceMac"}

\* C15 (as stated): for a device-signed document that carries neither or both
\* of deviceSignature and deviceMac, device authentication delivers a FAILED
\* DEVICE_AUTH assessment.  (The steps before the signature verification
\* deliver nothing, so the last step's assessments are the whole of it.)
C15_ExactlyOneDeviceAuth ==
  (/\ DeviceAuthOver
   /\ vin.document.isDeviceSigned
   /\ vin.document.deviceSignature <=> vin.document.deviceMac)
  => \E i \in 1..Len(assessments) :
       assessments[i].category = "DEVICE_AUTH" /\ assessments[i].status = "FAILED"

\* C15: the case where it does not: both elements present, the signature
\* verifies, and the only DEVICE_AUTH assessment is PASSED.
C15_Witness ==
  /\ vin.step = "deviceSignature"
  /\ vin.document.isDeviceSigned
  /\ vin.document.deviceSignature /\ vin.document.deviceMac
  /\ assessments = <<onCheck("DEVICE_AUTH", "deviceSignatureValid", "PASSED")>>

\* the MAC branch of device authentication was entered for the document
MacPath(d) ==
  /\ d.isDeviceSigned /\ ~d.deviceSignature /\ d.deviceMac
  /\ voptions.encodedSessionTranscript /\ d.deviceKey
GateNames == <<"deviceMac", "macAlg", "ephemeralPrivateKey">>
GatePassed(d) == <<d.deviceMac, d.hasSupportedAlg, voptions.ephemeralReaderKey>>
\* how many gates are assessed: up to and including the first that fails
GatesAssessed(d) ==
  IF \E i \in 1..3 : ~GatePassed(d)[i]
    THEN CHOOSE i \in 1..3 : ~GatePassed(d)[i] /\ \A j \in 1..(i - 1) : GatePassed(d)[j]
    ELSE 3

DigestMatches(i) == vin.ns \in vin.valueDigests /\ vin.items[i].digestEqual
DigestAssessments(id, status) ==
  {i \in 1..Len(assessments) :
     /\ assessments[i].check = "digest"
     /\ assessments[i].id = id
     /\ assessments[i].status = status}
ItemsWith(id, status) ==
  {i \in 1..Len(vin.items) :
     vin.items[i].elementIdentifier = id /\ Status(DigestMatches(i)) = status}

\* C17: when a namespace callback has run, every disclosed item of the
\* namespace has exactly one digest assessment, naming the namespace and the
\* item's elementIdentifier, PASSED if the item's calculated digest equals
\* valueDigests[ns][digestID] of the MSO and FAILED if not (or if the MSO has
\* no digests for the namespace); there is no other digest assessment.
C17_OneDigestAssessmentPerItem ==
  AfterNamespace =>
    /\ \A id \in ElementIdentifiers, status \in {"PASSED", "FAILED"} :
         Cardinality(DigestAssessments(id, status)) = Cardinality(ItemsWith(id, status))
    /\ \A i \in 1..Len(assessments) :
         assessments[i].check = "digest" =>
           /\ assessments[i].category = "DATA_INTEGRITY"
           /\ assessments[i].ns = vin.ns
           /\ assessments[i].id \in ElementIdentifiers

\* C17: an item whose digest differs from the MSO's has been assessed FAILED.
C17_Witness ==
  /\ AfterNamespace
  /\ vin.ns \in vin.valueDigests
  /\ Len(vin.items) = 1 /\ ~vin.items[1].digestEqual
  /\ assessments[1] = Assessment("DATA_INTEGRITY", "digest", "FAILED", "", vin.ns,
                                 vin.items[1].elementIdentifier)

\* The same namespace with the bytes of item i changed: its calculated digest
\* no longer equals the MSO's.
Tampered(items, i) == [items EXCEPT ![i].digestEqual = FALSE]
\* the assessments of a callback that are FAILED, without their status and reason
FailedOf(as) ==
  {[check |-> as[i].check, ns |-> as[i].ns, id |-> as[i].id] :
     i \in {j \in 1..Len(as) : as[j].status = "FAILED"}}
\* the last callback's assessments had item i been tampered with
ChecksIfTampered(i) ==
  NamespaceChecks(vin.ns, Tampered(vin.items, i), vin.valueDigests, vin.issuer)
IntactItems ==
  {i \in 1..Len(vin.items) : vin.ns \in vin.valueDigests /\ vin.items[i].digestEqual}
DigestOf(i) ==
  [check |-> "digest", ns |-> vin.ns, id |-> vin.items[i].elementIdentifier]
\* the certificate-match assessment that reads item i, if there is one
MatchCheckOf(i) ==
  IF /\ vin.ns = MDL_NAMESPACE
     /\ vin.issuer
     /\ vin.items[i].elementIdentifier \in {"issuing_country", "issuing_jurisdiction"}
    THEN {[check |-> vin.items[i].elementIdentifier, ns |-> vin.ns, id |-> ""]}
    ELSE {}

\* C18 (as stated): compared with the callback's assessments, those for the
\* same items with one intact item tampered with have that item's digest
\* assessment FAILED in addition, and no other FAILED assessment in addition.
C18_TamperFlipsOnlyTheDigest ==
  AfterNamespace =>
    /\ assessments = NamespaceChecks(vin.ns, vin.items, vin.valueDigests, vin.issuer)
    /\ \A i \in IntactItems :
         FailedOf(ChecksIfTampered(i)) = FailedOf(assessments) \cup {DigestOf(i)}

\* C18 (amended): the tampered item's digest assessment becomes FAILED, and so
\* does the issuing_country (issuing_jurisdiction) assessment when the item is
\* an issuing_country (issuing_jurisdiction) item of the mDL namespace and the
\* issuer name is available; no other assessment becomes FAILED.
C18_TamperFlipsDigestAndMatch ==
  AfterNamespace =>
    /\ assessments = NamespaceChecks(vin.ns, vin.items, vin.valueDigests, vin.issuer)
    /\ \A i \in IntactItems :
         FailedOf(ChecksIfTampered(i)) =
           FailedOf(assessments) \cup {DigestOf(i)} \cup MatchCheckOf(i)

\* C18: an intact, matching issuing_country item of the mDL namespace was
\* verified with nothing FAILED; tampering with it fails two assessments.
C18_Witness ==
  /\ AfterNamespace
  /\ vin.ns = MDL_NAMESPACE /\ vin.issuer
  /\ IntactItems = {1}
  /\ vin.items[1].elementIdentifier = "issuing_country"
  /\ FailedOf(assessments) = {}
  /\ Cardinality(FailedOf(ChecksIfTampered(1))) = 2

MatchAssessments(check) == {i \in 1..Len(assessments) : assessments[i].check = check}
\* some disclosed item with this identifier has an invalid digest or does not
\* match the DS certificate
SomeItemFails(id) ==
  \E i \in 1..Len(vin.items) :
    /\ vin.items[i].elementIdentifier = id
    /\ (~DigestMatches(i) \/ ~vin.items[i].matchCertificate)

\* C19: after the callback of the mDL namespace with the issuer name available
\* there is one issuing_country and one issuing_jurisdiction assessment, each
\* FAILED exactly when some disclosed item of that identifier has an invalid
\* digest or does not match the certificate (so PASSED when none is
\* disclosed); after the callback of any other namespace there is neither.
C19_IssuingCountryAndJurisdiction ==
  AfterNamespace =>
    /\ (vin.ns = MDL_NAMESPACE /\ vin.issuer) =>
         \A id \in {"issuing_country", "issuing_jurisdiction"} :
           /\ Cardinality(MatchAssessments(id)) = 1
           /\ \A i \in MatchAssessments(id) :
                /\ assessments[i].category = "DATA_INTEGRITY"
                /\ (assessments[i].status = "FAILED") <=> SomeItemFails(id)
                /\ (assessments[i].status = "PASSED") <=> ~SomeItemFails(id)
    /\ vin.ns # MDL_NAMESPACE =>
         MatchAssessments("issuing_country") \cup MatchAssessments("issuing_jurisdiction") = {}

\* C19: a disclosed issuing_jurisdiction with a valid digest that does not
\* match the certificate: issuing_jurisdiction FAILED, issuing_country PASSED.
C19_Witness ==
  /\ AfterNamespace
  /\ vin.ns = MDL_NAMESPACE /\ vin.issuer
  /\ Len(vin.items) = 1
  /\ vin.items[1].elementIdentifier = "issuing_jurisdiction"
  /\ DigestMatches(1) /\ ~vin.items[1].matchCertificate
  /\ Delivered("issuing_jurisdiction", "FAILED")
  /\ Delivered("issuing_country", "PASSED")

\* What the last step read is what a document shows that was just issued with
\* the issuer's key and a DS certificate that is in order (valid at the signing
\* date, with a country name), verified with that certificate as root
\* certificate at a time inside the document's validity window.
FreshlyIssued ==
  CASE vin.step = "issuer" -> vin.certificate /\ vin.algName
    [] vin.step = "issuerChain" ->
         /\ Len(voptions.issuersRootCertificates) > 0
         /\ vin.chainValid /\ vin.x5chain = <<"ds">>
    [] vin.step = "issuerSignature" -> vin.key = "key" /\ vin.verified = "valid"
    [] vin.step = "issuerValidity" ->
         /\ vin.signed # {} /\ vin.certificateValidityData # {}
         /\ \A t \in vin.signed, w \in vin.certificateValidityData :
              w.notBefore <= t /\ t <= w.notAfter
    [] vin.step = "issuerValidNow" ->
         /\ vin.validFrom <= vin.now /\ vin.now <= vin.validUntil
         /\ vin.countryName
    [] vin.step = "data" ->
         /\ vin.digestAlgorithm \in DIGEST_ALGS
         /\ NameSpaceSet(vin.nameSpaces) \subseteq vin.valueDigests
    [] vin.step = "namespace" ->
         /\ ~vin.rejected
         /\ vin.ns \in vin.valueDigests
         /\ \A i \in 1..Len(vin.items) : vin.items[i].digestEqual
         /\ vin.ns = MDL_NAMESPACE => vin.issuer
    [] OTHER -> FALSE
\* the issuer put into the document the country and jurisdiction of the certificate
ElementsMatchCertificate ==
  vin.step = "namespace" => \A i \in 1..Len(vin.items) : vin.items[i].matchCertificate
AllPassed ==
  \A i \in 1..Len(assessments) :
    assessments[i].category \in {"ISSUER_AUTH", "DATA_INTEGRITY"} =>
      assessments[i].status = "PASSED"

\* C20 (as stated): every ISSUER_AUTH and DATA_INTEGRITY assessment of a step
\* that reads a freshly issued document is PASSED.
C20_FreshDocumentPasses ==
  FreshlyIssued => AllPassed

\* C20 (amended): it is, provided the issuing_country and issuing_jurisdiction
\* elements the issuer put into the mDL namespace are those of the certificate.
C20_FreshMatchingDocumentPasses ==
  (FreshlyIssued /\ ElementsMatchCertificate) => AllPassed

\* C20: the mDL namespace of a fresh document with an issuing_country element
\* has been verified: digest, issuing_country and issuing_jurisdiction PASSED.
C20_Witness ==
  /\ FreshlyIssued /\ ElementsMatchCertificate
  /\ vin.step = "namespace" /\ vin.ns = MDL_NAMESPACE
  /\ Len(vin.items) = 1 /\ vin.items[1].elementIdentifier = "issuing_country"
  /\ Len(assessments) = 3 /\ AllPassed
  /\ ~failedSeen

\* C21: whenever the signed-date assessment is delivered it is PASSED exactly
\* when notBefore <= signed <= notAfter, and the valid-now assessment is PASSED
\* exactly when validFrom <= now <= validUntil; each is delivered once and is
\* FAILED otherwise.
C21_ValidityWindowsInclusive ==
  /\ (vin.step = "issuerValidity" /\ assessments # <<>>) =>
       /\ Len(assessments) = 1
       /\ assessments[1].check = "signedWithinCertificateValidity"
       /\ assessments[1].status \in {"PASSED", "FAILED"}
       /\ (assessments[1].status = "PASSED") <=>
            (\A t \in vin.signed, w \in vin.certificateValidityData :
               w.notBefore <= t /\ t <= w.notAfter)
  /\ vin.step = "issuerValidNow" =>
       /\ assessments[1].check = "validNow"
       /\ assessments[1].status \in {"PASSED", "FAILED"}
       /\ (assessments[1].status = "PASSED") <=>
            (vin.validFrom <= vin.now /\ vin.now <= vin.validUntil)
       /\ \A i \in 2..Len(assessments) : assessments[i].check # "validNow"

\* C21: verification at the last instant of the validity window: PASSED.
C21_Witness ==
  /\ vin.step = "issuerValidNow"
  /\ vin.validFrom < vin.validUntil /\ vin.now = vin.validUntil
  /\ Delivered("validNow", "PASSED")

\* a host capability invoked by the last step rejected
CapabilityRejectedInStep ==
  CASE vin.step = "issuerChain" -> Called("validateCertificateChain") /\ ~vin.chainValid
    [] vin.step = "issuerSignature" -> vin.key = "rejects" \/ vin.verified = "rejects"
    [] vin.step = "issuerValidity" -> vin.certificateValidityData = {}
    [] vin.step \in {"deviceSignature", "deviceMac"} ->
         vin.outcome \in {"keyRejects", "verifyRejects"}
    [] vin.step = "namespace" -> vin.rejected
    [] OTHER -> FALSE

\* C22 (as stated): a step of verify in which a host capability rejected ends
\* verify with that error for the caller.
C22_RejectionPropagates ==
  CapabilityRejectedInStep => VThrewError("CapabilityRejected")

\* C22: the case where it does not: jose.importJwk rejects during device
\* authentication, the rejection becomes a FAILED 'Device signature must be
\* valid' assessment and verify goes on to the data checks.
C22_Witness ==
  /\ vin.step = "deviceSignature" /\ vin.outcome = "keyRejects"
  /\ vcalls = <<"importJwk">>
  /\ Delivered("deviceSignatureValid", "FAILED")
  /\ vresult = VPending /\ vpc = "data"

-----------------------------------------------------------------------------
(* Properties of the DeviceResponse builder *)

Builder == <<mdoc, pd, handover, useMac, devicePrivateKey, alg, macAlg,
             ephemeralPublicKey, bresult>>

SharedId(p) ==
  \E i \in 1..Len(p.input_descriptors), j \in 1..Len(p.input_descriptors) :
    i # j /\ p.input_descriptors[i].id = p.input_descriptors[j].id

\* C23: a call of usingPresentationDefinition with no input descriptor, or with
\* two input descriptors of one id, ends in an error and changes no field of
\* the builder: the presentation definition is the one it was before, set or
\* not; any other presentation definition is accepted and stored.
C23_RejectedDefinitionLeavesBuilder ==
  [][blast'.op = "usingPresentationDefinition" =>
       /\ (Len(blast'.arg[1].input_descriptors) = 0 \/ SharedId(blast'.arg[1]))
            <=> blast'.error # "none"
       /\ blast'.error # "none" => UNCHANGED Builder
       /\ blast'.error = "none" => pd' = blast'.arg]_vars

\* C23: a definition with a repeated id was refused after another had been
\* accepted, and the accepted one is still in effect.
C23_Witness ==
  /\ blast.op = "usingPresentationDefinition"
  /\ SharedId(blast.arg[1])
  /\ blast.error # "none"
  /\ pd # <<>>
  /\ pd # blast.arg

\* C24: sign returns an MDoc only when a presentation definition is stored, a
\* handover is set and a device key is set; when one of the three is missing
\* sign throws and there is no document; and the device key is set by
\* authenticateWithSignature and authenticateWithMAC only.
C24_SignNeedsDefinitionHandoverAndKey ==
  /\ [](/\ bresult.kind = "MDoc" => pd # <<>> /\ handover /\ devicePrivateKey
        /\ (bpc = "signed" /\ (pd = <<>> \/ ~handover \/ ~devicePrivateKey)) =>
             bresult.kind = "threw" /\ bresult.documents = <<>>
        /\ bpc # "signed" => bresult = BPending)
  /\ [][devicePrivateKey' # devicePrivateKey =>
          blast'.op \in {"authenticateWithSignature", "authenticateWithMAC"}]_vars

\* C24: sign was called with a presentation definition and a handover but no
\* device key, and threw.
C24_Witness ==
  /\ bpc = "signed"
  /\ pd # <<>>
  /\ handover
  /\ ~devicePrivateKey
  /\ bresult = BThrow("Missing devicePrivateKey for getDeviceAuthMac")

Unmatched(id) == \A i \in 1..Len(mdoc.documents) : mdoc.documents[i].docType # id.id

SomeUnmatched ==
  /\ pd # <<>>
  /\ \E i \in 1..Len(pd[1].input_descriptors) : Unmatched(pd[1].input_descriptors[i])

\* C25 as stated: whenever some input descriptor names a docType the source
\* mdoc has no document of, sign throws the doc-type-not-found error.
C25_UnmatchedDocTypeFails ==
  (bpc = "signed" /\ SomeUnmatched) => bresult = BThrow(DocTypeNotFound)

\* C25: once a handover is set, sign throws the doc-type-not-found error
\* whenever some input descriptor names a docType the source mdoc has no
\* document of, whatever the other descriptors match and whatever key is set;
\* without a handover sign throws the handover error instead.
C25_UnmatchedDocTypeFailsAfterHandover ==
  (bpc = "signed" /\ SomeUnmatched) =>
     bresult = IF handover THEN BThrow(DocTypeNotFound)
               ELSE BThrow("Must provide handover data with .usingHandover()")

\* C25: two descriptors, the first matches the mDL and the second names the
\* PID the mdoc does not hold; no key is set; sign threw doc-type-not-found.
C25_Witness ==
  /\ bpc = "signed"
  /\ handover
  /\ ~devicePrivateKey
  /\ pd # <<>>
  /\ Len(pd[1].input_descriptors) = 2
  /\ ~Unmatched(pd[1].input_descriptors[1])
  /\ Unmatched(pd[1].input_descriptors[2])
  /\ bresult = BThrow(DocTypeNotFound)

SourceDocument(docType) ==
  mdoc.documents[CHOOSE i \in 1..Len(mdoc.documents) :
                   /\ mdoc.documents[i].docType = docType
                   /\ \A j \in 1..(i - 1) : mdoc.documents[j].docType # docType]

\* The path names the item, or asks for an age threshold and the item is one.
Selects(path, nameSpace, item) ==
  /\ path[1] = nameSpace
  /\ \/ path[2] = item.elementIdentifier
     \/ startsWithAgeOver(path[2]) /\ startsWithAgeOver(item.elementIdentifier)

Requested(id, nameSpace, item) ==
  \E f \in 1..Len(id.constraints.fields) :
    \E q \in 1..Len(id.constraints.fields[f].path) :
      Selects(id.constraints.fields[f].path[q], nameSpace, item)

ValidAuthentication ==
  /\ devicePrivateKey
  /\ IF useMac THEN ephemeralPublicKey /\ macAlg # "undefined" ELSE alg # "undefined"

\* C26: in every document sign returns, each item of each issuer-signed
\* namespace is an item of that namespace of the source document of the same
\* docType, equal in every field, and some path of some requested field selects
\* it; there are no more items than requested fields; the issuerAuth is the
\* source document's; and with every docType present and a usable key, sign
\* throws only when a host capability rejects, so a field that matches nothing
\* is no error.
C26_DisclosureSelectsOnly ==
  /\ bresult.kind = "MDoc" =>
       /\ Len(bresult.documents) = Len(pd[1].input_descriptors)
       /\ \A d \in 1..Len(bresult.documents) :
            LET out == bresult.documents[d]
                id == pd[1].input_descriptors[d]
                src == SourceDocument(id.id)
            IN /\ out.docType = src.docType
               /\ out.issuerSigned.issuerAuth = src.issuerSigned.issuerAuth
               /\ \A ns \in SourceNameSpaces :
                    \A k \in 1..Len(out.issuerSigned.nameSpaces[ns]) :
                      /\ \E m \in 1..Len(src.issuerSigned.nameSpaces[ns]) :
                           src.issuerSigned.nameSpaces[ns][m] =
                             out.issuerSigned.nameSpaces[ns][k]
                      /\ Requested(id, ns, out.issuerSigned.nameSpaces[ns][k])
               /\ Len(out.issuerSigned.nameSpaces[MdlNameSpace])
                    + Len(out.issuerSigned.nameSpaces[AamvaNameSpace])
                    <= Len(id.constraints.fields)
  /\ (bpc = "signed" /\ pd # <<>> /\ handover /\ ~SomeUnmatched
        /\ ValidAuthentication /\ bresult.kind = "threw") =>
       bresult.error = "CapabilityRejected"

\* C26: given_name and family_name of the mDL namespace were requested from a
\* source with age items and an aamva item; the document returned discloses
\* the family_name item alone.
C26_Witness ==
  /\ bresult.kind = "MDoc"
  /\ Len(pd[1].input_descriptors[1].constraints.fields) = 2
  /\ Len(SourceDocument(MdlDocType).issuerSigned.nameSpaces[MdlNameSpace]) = 3
  /\ bresult.documents[1].issuerSigned.nameSpaces[MdlNameSpace] =
       <<IssuerSignedItem(2, "family_name", "'Doe'")>>
  /\ bresult.documents[1].issuerSigned.nameSpaces[AamvaNameSpace] = <<>>
  /\ bresult.documents[1].issuerSigned.issuerAuth = "issuerAuth of the mDL"

\* C27: where a descriptor requests one age_over_NN of a namespace, the
\* document returned for it discloses, of the source items age_over_k of that
\* namespace, the one with the least k >= NN among those whose value is true;
\* when there is none, the one with the greatest k <= NN among those whose
\* value is false; when there is none either, nothing. So a disclosed value is
\* true exactly when the source has a true age_over_k with k >= NN.
C27_AgeOverRule ==
  bresult.kind = "MDoc" =>
    \A d \in 1..Len(bresult.documents) :
      LET fields == pd[1].input_descriptors[d].constraints.fields
      IN (Len(fields) = 1 /\ Len(fields[1].path) = 1
            /\ startsWithAgeOver(fields[1].path[1][2])) =>
           LET ns == fields[1].path[1][1]
               NN == AgeOverNN[fields[1].path[1][2]]
               source == SourceDocument(pd[1].input_descriptors[d].id)
                           .issuerSigned.nameSpaces[ns]
               ages == {m \in 1..Len(source) :
                          startsWithAgeOver(source[m].elementIdentifier)}
               K(m) == AgeOverNN[source[m].elementIdentifier]
               trues == {m \in ages : source[m].elementValue = "true" /\ K(m) >= NN}
               falses == {m \in ages : source[m].elementValue = "false" /\ K(m) <= NN}
               disclosed == bresult.documents[d].issuerSigned.nameSpaces[ns]
           IN /\ trues # {} =>
                   \E m \in trues : /\ \A o \in trues : K(m) <= K(o)
                                    /\ disclosed = <<source[m]>>
              /\ (trues = {} /\ falses # {}) =>
                   \E m \in falses : /\ \A o \in falses : K(m) >= K(o)
                                     /\ disclosed = <<source[m]>>
              /\ (trues = {} /\ falses = {}) => disclosed = <<>>
              /\ disclosed # <<>> =>
                   (disclosed[1].elementValue = "true" <=> trues # {})

\* C27: age_over_16 was requested from a source that lists age_over_21 before
\* age_over_18, both true; age_over_18 is disclosed.
C27_Witness ==
  /\ bresult.kind = "MDoc"
  /\ pd[1].input_descriptors[1].constraints.fields =
       <<Field(<<<<MdlNameSpace, "age_over_16">>>>)>>
  /\ SourceDocument(MdlDocType).issuerSigned.nameSpaces[MdlNameSpace] =
       MdlItems("true", "true")
  /\ bresult.documents[1].issuerSigned.nameSpaces[MdlNameSpace] =
       <<IssuerSignedItem(3, "age_over_18", "true")>>

ProducedMacs ==
  {d \in 1..Len(bresult.documents) :
     bresult.documents[d].deviceSigned.deviceAuth.type = "deviceMac"}

\* C28: every device MAC in a document sign returns has HMAC 256/256 (COSE
\* label 5) as the alg of its protected header.
C28_MacAlgIsHmac256 ==
  \A d \in ProducedMacs :
    bresult.documents[d].deviceSigned.deviceAuth.alg = MacAlgorithms.HS256

\* C28: after authenticateWithMAC with HS384, sign returned a document whose
\* device MAC has alg 6.
C28_Witness ==
  /\ bresult.kind = "MDoc"
  /\ macAlg = "HS384"
  /\ ProducedMacs # {}
  /\ \A d \in ProducedMacs :
       bresult.documents[d].deviceSigned.deviceAuth.alg = MacAlgorithms.HS384

-----------------------------------------------------------------------------
(* Properties of the key layer *)

RsaKeyPairCall == kin.op = "generateKeyPair" /\ kin.alg \in RsaAlgs

Below2048(m) == m.typeof = "number" /\ ~m.isNaN /\ m.value < MinModulusLength

\* Not a number: of another type than number, or the number value NaN.
NotANumber(m) == m.typeof \notin {"undefined", "number"} \/ m.isNaN

\* C29 as stated: generateKeyPair for an RSA alg throws without any call of
\* crypto.subtle.generateKey when the modulusLength is below 2048 or is not a
\* number, and asks for 2048 bits when no modulusLength is given.
C29_WeakModulusNeverReachesGenerateKey ==
  RsaKeyPairCall =>
    /\ (Below2048(kin.modulusLength) \/ NotANumber(kin.modulusLength)) =>
         kcalls = <<>> /\ kresult.kind = "threw"
    /\ kin.modulusLength = Undefined =>
         kcalls = <<SubtleCall("subtle.generateKey", orFalse(kin.extractable),
                               Number(MinModulusLength))>>

\* C29: generateKeyPair for an RSA alg throws without any call of
\* crypto.subtle.generateKey when the modulusLength is a number below 2048 or
\* is of another type than number, asks for 2048 bits when no modulusLength is
\* given, and else hands the modulusLength to crypto.subtle.generateKey: also
\* when it is NaN, which is of type number and below nothing.
C29_ModulusLengthGuard ==
  RsaKeyPairCall =>
    /\ (Below2048(kin.modulusLength)
          \/ kin.modulusLength.typeof \notin {"undefined", "number"}) <=>
         (kcalls = <<>> /\ kresult.kind = "threw")
    /\ kcalls # <<>> =>
         kcalls = <<SubtleCall("subtle.generateKey", orFalse(kin.extractable),
                               IF kin.modulusLength = Undefined
                               THEN Number(MinModulusLength)
                               ELSE kin.modulusLength)>>

\* C29: generateKeyPair for an RSA alg with modulusLength 2047 has thrown and
\* called nothing.
C29_Witness ==
  /\ RsaKeyPairCall
  /\ kin.modulusLength = Number(MinModulusLength - 1)
  /\ kcalls = <<>>
  /\ kresult = KThrow("Invalid or unsupported modulusLength option provided, 2048 bits or larger keys must be used")

ExtractableRequested == kin.extractable = "true"

SubtleAsksAsRequested ==
  \A c \in 1..Len(kcalls) :
    kcalls[c].fn \in {"subtle.importKey", "subtle.generateKey"} =>
      kcalls[c].extractable = ExtractableRequested

\* C30 as stated: every call of crypto.subtle asks for an extractable key only
\* when the caller passed extractable = true, and no operation returns
\* extractable key material unless the caller did.
C30_NothingExtractableUnlessRequested ==
  /\ SubtleAsksAsRequested
  /\ kresult.kind \in {"CryptoKey", "CryptoKeyPair", "Uint8Array"} =>
       (kresult.extractable => ExtractableRequested)

\* C30: every call of crypto.subtle.importKey and crypto.subtle.generateKey
\* asks for an extractable key exactly when the caller passed extractable =
\* true, and a CryptoKey or key pair returned is extractable exactly then; raw
\* key bytes are returned by generateSecret for A128CBC-HS256, A192CBC-HS384 and
\* A256CBC-HS512 only, and there whatever extractable is.
C30_ExtractableAsRequestedButCbcSecrets ==
  /\ SubtleAsksAsRequested
  /\ kresult.kind \in {"CryptoKey", "CryptoKeyPair"} =>
       kresult.extractable = ExtractableRequested
  /\ kresult.kind = "Uint8Array" <=>
       (kin.op = "generateSecret" /\ kin.alg \in CbcHmacAlgs)

\* C30: generateSecret for A128CBC-HS256 without an extractable option has
\* returned the raw bytes of the secret.
C30_Witness ==
  /\ kin.op = "generateSecret"
  /\ kin.alg = "A128CBC-HS256"
  /\ kin.extractable = "undefined"
  /\ kresult.kind = "Uint8Array"
  /\ kcalls = <<SubtleCall("crypto.getRandomValues", FALSE, Undefined)>>

\* The dispatch table: scheme, hash, curve and key length of an alg.
DispatchTable(alg_) ==
  CASE alg_ = "PS256" -> Algorithm("RSA-PSS", "SHA-256", "", 0)
    [] alg_ = "PS384" -> Algorithm("RSA-PSS", "SHA-384", "", 0)
    [] alg_ = "PS512" -> Algorithm("RSA-PSS", "SHA-512", "", 0)
    [] alg_ = "RS256" -> Algorithm("RSASSA-PKCS1-v1_5", "SHA-256", "", 0)
    [] alg_ = "RS384" -> Algorithm("RSASSA-PKCS1-v1_5", "SHA-384", "", 0)
    [] alg_ = "RS512" -> Algorithm("RSASSA-PKCS1-v1_5", "SHA-512", "", 0)
    [] alg_ = "RSA-OAEP" -> Algorithm("RSA-OAEP", "SHA-1", "", 0)
    [] alg_ = "RSA-OAEP-256" -> Algorithm("RSA-OAEP", "SHA-256", "", 0)
    [] alg_ = "RSA-OAEP-384" -> Algorithm("RSA-OAEP", "SHA-384", "", 0)
    [] alg_ = "RSA-OAEP-512" -> Algorithm("RSA-OAEP", "SHA-512", "", 0)
    [] alg_ = "ES256" -> Algorithm("ECDSA", "", "P-256", 0)
    [] alg_ = "ES384" -> Algorithm("ECDSA", "", "P-384", 0)
    [] alg_ = "ES512" -> Algorithm("ECDSA", "", "P-521", 0)
    [] alg_ = "HS256" -> Algorithm("HMAC", "SHA-256", "", 256)
    [] alg_ = "HS384" -> Algorithm("HMAC", "SHA-384", "", 384)
    [] alg_ = "HS512" -> Algorithm("HMAC", "SHA-512", "", 512)
    [] alg_ = "A128KW" -> Algorithm("AES-KW", "", "", 128)
    [] alg_ = "A192KW" -> Algorithm("AES-KW", "", "", 192)
    [] alg_ = "A256KW" -> Algorithm("AES-KW", "", "", 256)
    [] alg_ \in {"A128GCM", "A128GCMKW"} -> Algorithm("AES-GCM", "", "", 128)
    [] alg_ \in {"A192GCM", "A192GCMKW"} -> Algorithm("AES-GCM", "", "", 192)
    [] alg_ \in {"A256GCM", "A256GCMKW"} -> Algorithm("AES-GCM", "", "", 256)

\* The algs an operation has a case for.
TableOf(op) ==
  IF op = "generateSecret"
  THEN HmacAlgs \cup CbcHmacAlgs \cup AesKwAlgs \cup AesGcmAlgs
  ELSE RsaAlgs \cup EcdsaAlgs \cup EcdhAlgs \cup {"EdDSA"}

SubtleCalled ==
  kcalls # <<>> /\ kcalls[1].fn \in {"subtle.importKey", "subtle.generateKey"}

\* C31: whenever an import or a generation has called crypto.subtle for a PS,
\* RS, RSA-OAEP, ES, HS, AES-KW or AES-GCM alg, the algorithm it handed over is
\* the one of the dispatch table; and an alg the operation has no case for
\* ends in an error with no crypto call made.
C31_AlgorithmDispatch ==
  /\ (SubtleCalled /\ kin.alg \in RsaAlgs \cup EcdsaAlgs \cup HmacAlgs
                                   \cup AesKwAlgs \cup AesGcmAlgs) =>
       kalgorithm = DispatchTable(kin.alg)
  /\ (kin.op \in {"fromSPKI", "fromPKCS8", "fromX509", "generateSecret", "generateKeyPair"}
        /\ kin.alg \notin TableOf(kin.op)) =>
       kcalls = <<>> /\ kresult.kind = "threw"

\* C31: fromSPKI has imported an RSA-OAEP key with SHA-1, and nothing else.
C31_Witness ==
  /\ kin.op = "fromSPKI"
  /\ kin.alg = "RSA-OAEP"
  /\ SubtleCalled
  /\ kalgorithm = Algorithm("RSA-OAEP", "SHA-1", "", 0)
  /\ kresult.kind = "CryptoKey"

Exported(format) == kcalls = <<SubtleCall("subtle.exportKey " \o format, TRUE, Undefined)>>

\* C32: toPKCS8 of an extractable private CryptoKey is not refused for the
\* key's type and exports it as pkcs8, and toPKCS8 of an extractable public
\* CryptoKey throws the key-type error without exporting; toSPKI does the same
\* with public and private exchanged.
C32_ExportsMatchKeyType ==
  (kin.op \in {"toPKCS8", "toSPKI"} /\ kin.key.isCryptoKey /\ kin.key.extractable) =>
    LET own == IF kin.op = "toPKCS8" THEN "private" ELSE "public"
        other == IF kin.op = "toPKCS8" THEN "public" ELSE "private"
    IN /\ kin.key.type = own =>
            /\ Exported(IF kin.op = "toPKCS8" THEN "pkcs8" ELSE "spki")
            /\ kresult.kind = "PEM" \/ kresult = KThrow("CapabilityRejected")
       /\ kin.key.type = other =>
            /\ kcalls = <<>>
            /\ kresult = KThrow("key is not a " \o own \o " key")

\* C32: toPKCS8 of an extractable private CryptoKey has thrown 'key is not a
\* public key' and exported nothing.
C32_Witness ==
  /\ kin.op = "toPKCS8"
  /\ kin.key = [isCryptoKey |-> TRUE, extractable |-> TRUE, type |-> "private"]
  /\ kcalls = <<>>
  /\ kresult = KThrow("key is not a public key")

-----------------------------------------------------------------------------
(* Properties of the issuer and device authentication steps *)

\* The checks of the assessments, in the order delivered.
ChecksOf(as) == [i \in 1..Len(as) |-> as[i].check]
CategoriesOf(as) == {as[i].category : i \in 1..Len(as)}
Contexts(calls) == {ContextOf(calls[i]) : i \in 1..Len(calls)}
IssuerSteps == {"issuer", "issuerChain", "issuerSignature", "issuerValidity", "issuerValidNow"}

\* With chain validation disabled there is no chain step, no chain
\* assessment and no call of validateCertificateChain; ISSUER_AUTH
\* assessments come from the issuer steps only.
ChainOnlyUnlessDisabled ==
  /\ voptions.disableCertificateChainValidation =>
       /\ vpc # "issuerChain"
       /\ ~Called("validateCertificateChain")
       /\ \A i \in 1..Len(assessments) : assessments[i].check # "chain"
  /\ "ISSUER_AUTH" \in CategoriesOf(assessments) =>
       vin.step \in IssuerSteps /\ CategoriesOf(assessments) = {"ISSUER_AUTH"}

\* One step of verifyIssuerSignature after the certificate and the alg were
\* found: unless the step ends verify with an error, it delivers its own
\* assessments, whatever their status, and the next step in the order follows.
IssuerStepInOrder ==
  /\ (vpc = "issuer" /\ vin'.step = "issuer" /\ vin'.certificate /\ vin'.algName) =>
       /\ assessments' = <<>>
       /\ vpc' = IF voptions.disableCertificateChainValidation
                   THEN "issuerSignature" ELSE "issuerChain"
  /\ vpc = "issuerChain" =>
       ChecksOf(assessments') = <<"chain">> /\ vpc' = "issuerSignature"
  /\ (vpc = "issuerSignature" /\ vresult' = VPending) =>
       ChecksOf(assessments') = <<"signature">> /\ vpc' = "issuerValidity"
  /\ (vpc = "issuerValidity" /\ vresult' = VPending) =>
       ChecksOf(assessments') = <<"signedWithinCertificateValidity">> /\ vpc' = "issuerValidNow"
  /\ vpc = "issuerValidNow" =>
       ChecksOf(assessments') = <<"validNow", "countryName">> /\ vpc' = "device"

NoCertificateOrAlg == vin.step = "issuer" /\ (~vin.certificate \/ ~vin.algName)

\* One FAILED ISSUER_AUTH assessment, and the device authentication is next.
OneFailedThenDevice ==
  /\ Len(assessments) = 1
  /\ assessments[1].category = "ISSUER_AUTH"
  /\ assessments[1].status = "FAILED"
  /\ vpc = "device"

\* After the issuer authentication the device authentication and then the
\* data integrity checks of the document run.
DeviceThenData ==
  /\ vpc = "device" => vpc' \in {"data", "deviceSignature", "deviceMac"} /\ assessments' # <<>>
  /\ vpc \in {"deviceSignature", "deviceMac"} => vpc' = "data"

\* C35 (as stated): without a certificate, or without an alg, exactly one
\* FAILED ISSUER_AUTH assessment is delivered for the document, no x509
\* capability is called for its issuer authentication, and the DEVICE_AUTH
\* and DATA_INTEGRITY checks of the document follow.
C35_NoCertificateNoX509 ==
  /\ [](NoCertificateOrAlg => (OneFailedThenDevice /\ "x509" \notin Contexts(vcalls)))
  /\ [][DeviceThenData]_vars

\* A document without a certificate got its one FAILED assessment.
C35_Witness ==
  /\ NoCertificateOrAlg
  /\ ~vin.certificate
  /\ OneFailedThenDevice
  /\ Delivered("certificate", "FAILED")

\* The precondition of the device authentication that fails first, "none"
\* when all four hold.
FailingPrecondition(d) ==
  IF ~d.isDeviceSigned THEN "deviceSigned"
  ELSE IF ~d.deviceMac /\ ~d.deviceSignature THEN "deviceAuth"
  ELSE IF ~voptions.encodedSessionTranscript THEN "sessionTranscript"
  ELSE IF ~d.deviceKey THEN "deviceKey"
  ELSE "none"

\* C36: when the document is not device-signed, or its deviceAuth has
\* neither element, or no session transcript bytes were given, or the MSO has
\* no device key, exactly one FAILED DEVICE_AUTH assessment is delivered, for
\* the first of these that fails, no capability is called, and the device
\* authentication is over.
C36_DeviceAuthStopsAtFirstFailure ==
  /\ [](vin.step = "device" /\ FailingPrecondition(vin.document) # "none" =>
          /\ ChecksOf(assessments) = <<FailingPrecondition(vin.document)>>
          /\ assessments[1].category = "DEVICE_AUTH"
          /\ assessments[1].status = "FAILED"
          /\ vcalls = <<>>
          /\ vpc = "data")
  /\ [](vin.step \in {"deviceSignature", "deviceMac"} =>
          FailingPrecondition(vin.document) = "none")
  /\ []((Contexts(vcalls) \cap {"jose"} # {} \/ Called("calculateEphemeralMacKey")) =>
          vin.step \in {"deviceSignature", "deviceMac"})

\* A device-signed document with a deviceSignature and a session transcript,
\* but no device key in the MSO: the one assessment is about the device key.
C36_Witness ==
  /\ vin.step = "device"
  /\ vin.document.isDeviceSigned
  /\ vin.document.deviceSignature
  /\ voptions.encodedSessionTranscript
  /\ ~vin.document.deviceKey
  /\ Delivered("deviceKey", "FAILED")
  /\ vpc = "data"

-----------------------------------------------------------------------------
(* Properties of the builder's device authentication and path resolution *)

\* The deviceAuth the most recent authenticateWith* call asks for: a device
\* signature with the COSE alg of ES256, or a device MAC with the COSE alg
\* of the MAC alg given.
AskedDeviceAuth ==
  IF lastAuth.op = "authenticateWithSignature"
  THEN [type |-> "deviceSignature", alg |-> 0 - 7]
  ELSE [type |-> "deviceMac", alg |-> MacAlgorithms[lastAuth.alg]]

\* C37: every document sign returns carries one device authentication, of
\* the kind and with the alg of the most recent authenticateWithSignature or
\* authenticateWithMAC call; what an earlier call of the other kind set has
\* no effect.
C37_DeviceAuthIsLastAsked ==
  bresult.kind = "MDoc" =>
    /\ lastAuth # NoAuth
    /\ \A d \in 1..Len(bresult.documents) :
         bresult.documents[d].deviceSigned.deviceAuth = AskedDeviceAuth

\* authenticateWithSignature was called after authenticateWithMAC, whose
\* ephemeral key and MAC alg are still set; the document carries a device
\* signature.
C37_Witness ==
  /\ bresult.kind = "MDoc"
  /\ lastAuth.op = "authenticateWithSignature"
  /\ ephemeralPublicKey
  /\ macAlg = "HS256"
  /\ Len(bresult.documents) = 1
  /\ bresult.documents[1].deviceSigned.deviceAuth.type = "deviceSignature"

\* What one path resolves to in the document: the item, or nothing.
ResolvesTo(path, document) == prepareDigest(<<path>>, document)

\* The result of the first path, in path order, that resolves.
FirstResolving(paths, document) ==
  LET resolving == {q \in 1..Len(paths) : ResolvesTo(paths[q], document) # <<>>}
  IN IF resolving = {} THEN <<>> ELSE ResolvesTo(paths[First(resolving)], document)

\* The items to disclose for the fields, by namespace.
RECURSIVE FirstResolvingOfFields(_, _, _)
FirstResolvingOfFields(fields, document, nameSpaces) ==
  IF fields = <<>> THEN nameSpaces
  ELSE LET result == FirstResolving(Head(fields).path, document)
       IN FirstResolvingOfFields(Tail(fields), document,
            IF result = <<>> THEN nameSpaces
            ELSE [nameSpaces EXCEPT ![result[1].nameSpace] =
                    Append(@, result[1].digest)])

\* C38 (as stated): for every requested field the document returned
\* discloses the item of the first of the field's paths, in path order, that
\* resolves to an item of the source document, and leaves the field out
\* only when no path resolves; also when an earlier path is an age_over_NN
\* path that resolves to nothing.
C38_FirstResolvingPath ==
  bresult.kind = "MDoc" =>
    \A d \in 1..Len(bresult.documents) :
      LET id == pd[1].input_descriptors[d]
      IN bresult.documents[d].issuerSigned.nameSpaces =
           FirstResolvingOfFields(id.constraints.fields, SourceDocument(id.id),
                                  [ns \in SourceNameSpaces |-> <<>>])

\* A field with the paths age_over_25 and family_name was requested from a
\* source whose age_over items are all true, so that the first path
\* resolves to nothing and the second to the family_name item; sign has
\* returned.
C38_Witness ==
  /\ bresult.kind = "MDoc"
  /\ Len(pd[1].input_descriptors) = 1
  /\ pd[1].input_descriptors[1].constraints.fields =
       <<Field(<<<<MdlNameSpace, "age_over_25">>, <<MdlNameSpace, "family_name">>>>)>>
  /\ ResolvesTo(<<MdlNameSpace, "age_over_25">>, SourceDocument(pd[1].input_descriptors[1].id)) = <<>>
  /\ ResolvesTo(<<MdlNameSpace, "family_name">>, SourceDocument(pd[1].input_descriptors[1].id)) # <<>>

-----------------------------------------------------------------------------
(* Properties of the ASN.1 walk and of the X.509 import *)

\* The index the SubjectPublicKeyInfo is taken from.
SpkiIndex(c) == IF Head(ShapeElements(c))[1] = 160 THEN 6 ELSE 5

\* C33: fromX509 takes the SubjectPublicKeyInfo from the tbsCertificate
\* element at index 6 when the first element starts with 0xA0 and at index 5
\* otherwise, and the key data it imports are exactly the raw bytes (header
\* and contents) of that element.
C33_SpkiIsElementSixOrFive ==
  \A c \in CertificateShapes :
    (apc = "x509" /\ aseq = CertificateDer(c) /\ SpkiIndex(c) < Len(ShapeElements(c)))
      => aresult = AImported(ShapeElements(c)[SpkiIndex(c) + 1])

\* A certificate with the version element and a key that needs the long
\* length form was imported: its key data are the whole SPKI element.
C33_Witness ==
  /\ apc = "x509"
  /\ aresult.kind = "imported"
  /\ \E c \in CertificateShapes :
       /\ c.version /\ c.key = Repeat(9, 130) /\ c.cut = 0
       /\ aseq = CertificateDer(c)
       /\ aresult.keyData = Der(48, c.key)

\* A tag: one byte, or a first byte with the low five bits set, bytes with
\* the high bit set, and a last byte without it.
IsTag(t) ==
  /\ Len(t) >= 1
  /\ IF t[1] % 32 # 31 THEN Len(t) = 1
     ELSE /\ Len(t) >= 2
          /\ t[Len(t)] < 128
          /\ \A k \in 2..(Len(t) - 1) : t[k] >= 128

RECURSIVE BigEndian(_)
BigEndian(octets) ==
  IF octets = <<>> THEN 0
  ELSE BigEndian(SubSeq(octets, 1, Len(octets) - 1)) * 256 + octets[Len(octets)]

\* The definite length n: one byte below 0x80, or 0x80 + k and k bytes.
IsDefiniteLength(l, n) ==
  \/ Len(l) = 1 /\ l[1] < 128 /\ l[1] = n
  \/ Len(l) >= 2 /\ l[1] = 128 + Len(l) - 1 /\ BigEndian(Tail(l)) = n

\* raw is one element whose tag and length take `header` bytes.
IsEncoding(raw, header) ==
  \E t \in 1..(header - 1) :
    /\ IsTag(SubSeq(raw, 1, t))
    /\ IsDefiniteLength(SubSeq(raw, t + 1, header), Len(raw) - header)

\* The ways to read seq as elements in the definite form, one after the
\* other: each a sequence of the elements' raw bytes and contents.
RECURSIVE Decompositions(_)
Decompositions(seq) ==
  IF seq = <<>> THEN {<<>>}
  ELSE UNION {{<<[raw |-> SubSeq(seq, 1, n), contents |-> SubSeq(seq, h + 1, n)]>> \o d :
                d \in Decompositions(SubSeq(seq, n + 1, Len(seq)))} :
              <<n, h>> \in {x \in (1..Len(seq)) \X (1..Len(seq)) :
                             x[2] <= x[1] /\ IsEncoding(SubSeq(seq, 1, x[1]), x[2])}}

WellFormed(seq) == Decompositions(seq) # {}

\* The raw bytes and contents of the elements getElement returned.
ReturnedElements == [k \in 1..Len(aelements) |->
               [raw |-> aelements[k].raw, contents |-> aelements[k].contents]]

\* parseElement runs on at least one byte; its tag loop stays within the
\* bytes it was given, its length loop within numberOfDigits, which is one
\* input byte; when it returns it has read at least the tag and the length
\* byte; getElement returns no more elements than seq has bytes.
WalkBounded ==
  /\ apc \in {"tag", "length", "digits", "push"} => anext # NaN /\ anext < Len(aseq)
  /\ apc = "tag" => aposition <= Len(aseq) - anext
  /\ apc = "digits" => ai <= numberOfDigits /\ numberOfDigits <= 127
  /\ apc = "push" => aposition >= 2
  /\ Len(aelements) <= Len(aseq)

\* The bytes of a well-formed body come back as its elements.
WalkCovers ==
  (apc = "returned" /\ WellFormed(aseq)) =>
    /\ Decompositions(aseq) = {ReturnedElements}
    /\ Concat([k \in 1..Len(aelements) |-> aelements[k].raw]) = aseq

\* The elements the steps collect are those of getElement.
WalkIsGetElement == apc = "returned" => aelements = getElement(aseq)

\* C39: the walk terminates on every byte sequence: every parseElement call
\* moves next forward (or makes it NaN, which ends the loop), the tag and
\* length loops stay within the input, so getElement returns; and for a
\* well-formed body in the definite form the raw slices of the returned
\* elements are contiguous, in order, and cover the input exactly.
C39_WalkTerminatesAndCovers ==
  /\ [](WalkBounded /\ WalkCovers /\ WalkIsGetElement)
  /\ [][getElement_push => (anext' = NaN \/ anext' > anext)]_vars
  /\ (apc = "while") ~> (apc = "returned")

\* The walk of a well-formed body has returned: one element in the long
\* length form, with one byte of contents.
C39_Witness ==
  /\ apc = "returned"
  /\ WellFormed(aseq)
  /\ aseq = <<1, 129, 1, 0>>
  /\ Len(aelements) = 1
  /\ aelements[1].contents = <<0>>

\* The length byte of the first element of seq is 0x80.
FirstIsIndefinite == aseq # <<>> /\ At(aseq, afterTag(aseq)) = 128

\* What the indefinite form asks for: contents from after the length byte
\* up to the first 00 00, byteLength with the two marker bytes, the error
\* without a marker.
IndefiniteExpected(bytes) ==
  LET start == afterTag(bytes) + 1
      markers == {k \in start..(Len(bytes) - 2) : At(bytes, k) = 0 /\ At(bytes, k + 1) = 0}
      marker == CHOOSE k \in markers : \A m \in markers : k <= m
  IN IF markers = {} THEN ElementError("invalid indefinite form length")
     ELSE [error |-> "none", byteLength |-> marker + 2,
           contents |-> subarray(bytes, start, marker),
           raw |-> subarray(bytes, 0, marker + 2)]

\* C40: an element whose length byte is 0x80 is read in the indefinite form:
\* its contents run up to the first 00 00, byteLength includes the marker,
\* and without a marker 'invalid indefinite form length' is raised.
C40_IndefiniteFormIsHandled ==
  (apc = "returned" /\ FirstIsIndefinite) => aelements[1] = IndefiniteExpected(aseq)

\* An element with the length byte 0x80 and a 00 00 marker was walked.
C40_Witness ==
  /\ apc = "returned"
  /\ FirstIsIndefinite
  /\ IndefiniteExpected(aseq).error = "none"

=============================================================================
